---------------------------- MODULE Spec2Model ----------------------------
(***************************************************************************)
(* ScuffedChat real-time backbone.                                         *)
(*                                                                         *)
(* Part I  (SpecHub):  the connection registry of handlers/websocket       *)
(*   (src/unnamed/part_000): the Hub goroutine RunHub, the per-connection  *)
(*   reader (readPump) and writer (writePump), and the channels between    *)
(*   them.                                                                 *)
(* Part II (SpecPush): the push dispatcher of src/pkg/push/push.go:        *)
(*   handleNewMessage, getSubscriptionsFromSupabase, sendPushNamespace,    *)
(*   deleteSubscriptionFromSupabase.                                       *)
(*                                                                         *)
(* The two parts share no variable in the code (package handlers and       *)
(* package push); each has its own next-state relation over the common     *)
(* variable tuple.                                                         *)
(***************************************************************************)
EXTENDS Naturals, Sequences, FiniteSets

(***************************************************************************)
(* Bounds of the model.                                                    *)
(***************************************************************************)
\* Capacity of Client.Send (make(chan []byte, 256) in the code, scaled down).
SendBuf == 1
\* Capacity of hub.broadcast (make(chan BroadcastPayload, 256), scaled down).
BroadcastBuf == 1
\* Number of webhook requests (HandleNotify calls) in a run.
MaxEvents == 1

\* The Client instances HandleWebSocket creates in a run, and the user
\* identifiers a connection may present (?user_id=...).
Clients == {"c1", "c2"}
UserIDs == {"7", "ab"}
\* "No entry" of the map hub.clients; "absent or not a string" of a field.
NoClient == "none"
NoUser == "-"

VARIABLES
    clients,     \* hub.clients : userID -> *Client (NoClient: no entry)
    uid,         \* Client.UserID of each Client instance
    Send,        \* Client.Send : the buffered channel's content
    sendClosed,  \* whether close(client.Send) has been executed
    pc,          \* position of HandleWebSocket / readPump of each client
    wpc,         \* position of writePump of each client
    broadcast,   \* hub.broadcast : the buffered channel's content
    panicked,    \* the Hub goroutine panicked (the process is gone)
    lastCmd,     \* history: kind of the last registry command per user
    seq,         \* history: number of register/unregister commands processed
    tag,         \* history: per frame queued on Send, its command and its age
    got,         \* history: commands whose presence frame each writer wrote
    overtook,    \* history: most older frames a written frame left in the queue
    unwritten,   \* history: frames queued on Send and not yet taken from it
    closedBy,    \* Client.Conn : the pumps that have called c.Conn.Close()
    ignored,     \* history: the readers that have passed over a frame
    presence,    \* history: the last presence frame emitted for each user
    serviceKey,  \* os.Getenv("SUPABASE_SERVICE_ROLE_KEY")
    store,       \* the external table push_subscriptions: user -> endpoints
    epc,         \* position of HandleNotify / handleNewMessage per request
    rcpt,        \* receiverID resolved by handleNewMessage
    content,     \* content, _ := record["content"].(string)
    msgType,     \* msgType, _ := record["type"].(string)
    body,        \* history: the "body" string of the payload json.Marshal encodes
    returned,    \* the subscriptions getSubscriptionsFromSupabase returned
    tpc,         \* position of each goroutine sendPushNamespace(sub, ...)
    resp,        \* what webpush.SendNotification returned to it
    attempts,    \* history: number of SendNotification calls per subscription
    delCalls,    \* history: arguments of its deleteSubscriptionFromSupabase calls
    delReq,      \* history: endpoints of the DELETE requests sent to the store
    lookupFailed, \* history: a subscription lookup has failed
    lpc,         \* position of StartRealtimeListener / connectAndListen
    cur,         \* the connection c of the running connectAndListen
    link,        \* state of each change-feed connection
    hb,          \* state of the heartbeat goroutine of each connection
    timer,       \* seconds of time.Sleep(5 * time.Second) that have passed
    lcur,        \* the request whose handleNewMessage the listener is inside
    feedLog,     \* history: "malformed", or the table of a dispatched record
    joins,       \* history: join frames written on each connection
    kpc,             \* position of the process and of its InitPush call
    entry,           \* the entry point of the process: main or Handler
    env,             \* VAPID_PRIVATE_KEY and VAPID_PUBLIC_KEY of the process
    keyFile,         \* the file vapid_keys.json
    vapidPrivateKey, \* the package variable
    vapidPublicKey,  \* the package variable
    generated,       \* number of pairs webpush.GenerateVAPIDKeys has made
    run,             \* number of processes started so far
    consulted,       \* history: sources the running InitPush call has asked
    persisted,       \* history: the pair last saved, and the run that saved it
    resolved,        \* history: the pair the first InitPush call of the run left
    served,          \* history: public keys /api/config has handed out
    signed,          \* history: pairs deliveries were signed with
    hpc,         \* position of the GetOnlineUsers request
    hreq,        \* history: requestedIDs as split from the ids parameter
    hids,        \* the part of requestedIDs the loop has not reached
    honline,     \* onlineIDs
    hwas,        \* history: the requested identifiers registered when reached
    areq,        \* history: the last DeleteUserAccount request
    astatus,     \* the status code it was answered with
    adeleted     \* history: the arguments of its Auth.Admin.DeleteUser calls

hubVars == <<clients, uid, Send, sendClosed, pc, wpc, broadcast, panicked,
             lastCmd, seq, tag, got, overtook, unwritten, closedBy, ignored,
             presence>>

pushVars == <<serviceKey, store, epc, rcpt, content, msgType, body, returned,
              tpc, resp, attempts, delCalls, delReq, lookupFailed>>

listenVars == <<lpc, cur, link, hb, timer, lcur, feedLog, joins>>

keyVars == <<kpc, entry, env, keyFile, vapidPrivateKey, vapidPublicKey,
             generated, run, consulted, persisted, resolved, served, signed>>

lookupVars == <<hpc, hreq, hids, honline, hwas>>

adminVars == <<areq, astatus, adeleted>>

httpVars == <<lookupVars, adminVars>>

vars == <<hubVars, pushVars, listenVars, keyVars, httpVars>>

(***************************************************************************)
(* Frames.                                                                 *)
(***************************************************************************)
\* models.WebSocketMessage{Type: "online_status", Payload: {user_id, online}}
PresenceFrame(userID, online) ==
    [type |-> "online_status", user_id |-> userID, value |-> online]

\* What a client may write on its socket.  recipient_id is a user
\* identifier (a JSON string) or NoUser (absent or not a string); user_id is
\* whatever the client chose to put there.
InboundFrames ==
    [type : {"typing"}, recipient_id : UserIDs \cup {NoUser},
     user_id : UserIDs, typing : {TRUE}]
    \cup [type : {"other", "undecodable"}, recipient_id : {NoUser},
          user_id : {"7"}, typing : {TRUE}]

\* Faulty variant of IsForwarded: every decoded frame is forwarded.
IsForwardedAnyType(f) == f.type # "undecodable"

\* Faulty variant of TypingFrame: trusts the user_id the client supplied.
TypingFrameSpoofed(c, f) ==
    [type |-> "typing", user_id |-> f.user_id, value |-> f.typing]

\* readPump, case "typing": the frame forwarded to the recipient, with
\* "user_id": c.UserID and "typing": payload["typing"].
TypingFrame(c, f) ==
    [type |-> "typing", user_id |-> uid[c], value |-> f.typing]

\* readPump: does the frame reach BroadcastMessage?
IsForwarded(f) == f.type = "typing" /\ f.recipient_id # NoUser

(***************************************************************************)
(* Registry helpers.                                                       *)
(***************************************************************************)
\* IsUserOnline: _, ok := hub.clients[idStr]
IsUserOnline(userID) == clients[userID] # NoClient

Registered(m) == {m[u] : u \in UserIDs} \ {NoClient}

\* hub.mutex is read-locked by a task other than the Hub: a request is inside
\* IsUserOnline, between RLock and RUnlock.
ReadLocked == hpc = "rlocked"

InitHub ==
    /\ clients = [u \in UserIDs |-> NoClient]
    /\ uid = [c \in Clients |-> NoUser]
    /\ Send = [c \in Clients |-> <<>>]
    /\ sendClosed = [c \in Clients |-> FALSE]
    /\ pc = [c \in Clients |-> "new"]
    /\ wpc = [c \in Clients |-> "off"]
    /\ broadcast = <<>>
    /\ panicked = FALSE
    /\ lastCmd = [u \in UserIDs |-> "none"]
    /\ seq = 0
    /\ tag = [c \in Clients |-> <<>>]
    /\ got = [c \in Clients |-> <<>>]
    /\ overtook = [c \in Clients |-> 0]
    /\ unwritten = [c \in Clients |-> 0]
    /\ closedBy = [c \in Clients |-> {}]
    /\ ignored = {}
    /\ presence = [u \in UserIDs |-> "none"]

(***************************************************************************)
(* The Hub's building blocks (RunHub, broadcastOnlineStatus).              *)
(***************************************************************************)
\* Faulty variant of RegisterEntry: keeps an existing entry.
RegisterEntryKeepOld(m, c) ==
    IF m[uid[c]] = NoClient THEN [m EXCEPT ![uid[c]] = c] ELSE m

\* case client := <-hub.register:  hub.clients[client.UserID] = client
RegisterEntry(m, c) == [m EXCEPT ![uid[c]] = c]

\* Faulty variant of UnregisterEntry: forgets the delete.
UnregisterEntryKept(m, c) == m

\* case client := <-hub.unregister:
\*     if _, ok := hub.clients[client.UserID]; ok { delete(...); close(...) }
UnregisterEntry(m, c) == [m EXCEPT ![uid[c]] = NoClient]

\* The guard of the delete and of close(client.Send) in the unregister case.
HasEntry(m, c) == m[uid[c]] # NoClient

\* Faulty variant of EvictEntry: closes the queue but keeps the entry.
EvictEntryKept(m, userID) == m

\* case payload := <-hub.broadcast, default branch:
\*     close(client.Send); delete(hub.clients, payload.UserID)
EvictEntry(m, userID) == [m EXCEPT ![userID] = NoClient]

\* select { case client.Send <- data: default: }
HasRoom(q) == Len(q) < SendBuf

TrySend(q, msg) == IF HasRoom(q) THEN Append(q, msg) ELSE q

\* Faulty variants of PresenceTargets: no test of the user identifier, and
\* the test inverted.
PresenceTargetsAll(m, userID) == Registered(m)

PresenceTargetsInverted(m, userID) == {c \in Registered(m) : uid[c] = userID}

\* broadcastOnlineStatus: the clients of the map the frame is offered to
\* (if client.UserID != userID).
PresenceTargets(m, userID) == {c \in Registered(m) : uid[c] # userID}

\* broadcastOnlineStatus: the Send channels after the loop over map m.
BroadcastOnlineStatus(m, userID, online) ==
    [c \in Clients |->
        IF c \in PresenceTargets(m, userID)
        THEN TrySend(Send[c], PresenceFrame(userID, online))
        ELSE Send[c]]

\* The history kept beside a queued frame: the number of the register or
\* unregister command whose presence frame it is (NoCommand for a targeted
\* frame), and its age rank among the frames of the queue, 1 the oldest.
NoCommand == 0

Tag(q, cmd) == [cmd |-> cmd, rank |-> Len(q) + 1]

\* The tags beside the Send channels after broadcastOnlineStatus.
BroadcastTags(m, userID, cmd) ==
    [c \in Clients |->
        IF c \in PresenceTargets(m, userID)
        THEN TrySend(tag[c], Tag(tag[c], cmd))
        ELSE tag[c]]

\* The count of queued frames after the tags became t.
Queued(t) ==
    [c \in Clients |-> unwritten[c] + (Len(t[c]) - Len(tag[c]))]

\* The remaining tags once the frame tagged t has left the queue: younger
\* frames move up.
Aged(q, t) ==
    [i \in 1..Len(q) |->
        IF q[i].rank > t.rank THEN [q[i] EXCEPT !.rank = @ - 1] ELSE q[i]]

\* Faulty variant of AfterReceive: the frame received stays in the channel.
AfterReceiveKept(q) == q

\* writePump, for message := range c.Send: the receive takes the first
\* element of the channel and leaves the others.
Received(q) == Head(q)

AfterReceive(q) == Tail(q)

\* A send on a closed channel panics, also inside a select with a default.
PresencePanics(m, userID) ==
    \E c \in PresenceTargets(m, userID) : sendClosed[c]

(***************************************************************************)
(* HandleWebSocket: a new Client is created for a user identifier and      *)
(* offered on hub.register (unbuffered: it waits for the Hub).             *)
(***************************************************************************)
HandleWebSocket(c, userID) ==
    /\ ~panicked
    /\ pc[c] = "new"
    /\ uid' = [uid EXCEPT ![c] = userID]
    /\ pc' = [pc EXCEPT ![c] = "registering"]
    /\ UNCHANGED <<clients, Send, sendClosed, wpc, broadcast, panicked,
                   lastCmd, seq, tag, got, overtook, unwritten,
                   closedBy>>
    /\ UNCHANGED <<ignored, presence>>
    /\ UNCHANGED <<pushVars, listenVars, keyVars, httpVars>>

(***************************************************************************)
(* RunHub, case register.  HandleWebSocket then starts both pumps.         *)
(***************************************************************************)
HubRegister(c) ==
    /\ ~panicked
    /\ pc[c] = "registering"
    /\ ~ReadLocked
    /\ LET m == RegisterEntry(clients, c) IN
         /\ clients' = m
         /\ IF PresencePanics(m, uid[c])
            THEN panicked' = TRUE /\ Send' = Send /\ tag' = tag
            ELSE panicked' = FALSE
                 /\ Send' = BroadcastOnlineStatus(m, uid[c], TRUE)
                 /\ tag' = BroadcastTags(m, uid[c], seq + 1)
    /\ unwritten' = Queued(tag')
    /\ seq' = seq + 1
    /\ UNCHANGED <<got, overtook, closedBy>>
    /\ pc' = [pc EXCEPT ![c] = "open"]
    /\ wpc' = [wpc EXCEPT ![c] = "run"]
    /\ lastCmd' = [lastCmd EXCEPT ![uid[c]] = "register"]
    /\ presence' = IF panicked' THEN presence
                   ELSE [presence EXCEPT ![uid[c]] = "online"]
    /\ UNCHANGED <<uid, sendClosed, broadcast>>
    /\ UNCHANGED ignored
    /\ UNCHANGED <<pushVars, listenVars, keyVars, httpVars>>

(***************************************************************************)
(* RunHub, case unregister.  close(client.Send) closes the channel of the  *)
(* client that asked, whatever entry the map held; closing a closed        *)
(* channel panics after the delete.                                        *)
(***************************************************************************)
HubUnregister(c) ==
    /\ ~panicked
    /\ pc[c] = "unregistering"
    /\ ~ReadLocked
    /\ LET found == HasEntry(clients, c)
           m == IF found THEN UnregisterEntry(clients, c) ELSE clients
           closeTwice == found /\ sendClosed[c]
       IN
         /\ clients' = m
         /\ sendClosed' = IF found THEN [sendClosed EXCEPT ![c] = TRUE]
                          ELSE sendClosed
         /\ IF closeTwice \/ PresencePanics(m, uid[c])
            THEN panicked' = TRUE /\ Send' = Send /\ tag' = tag
            ELSE panicked' = FALSE
                 /\ Send' = BroadcastOnlineStatus(m, uid[c], FALSE)
                 /\ tag' = BroadcastTags(m, uid[c], seq + 1)
    /\ unwritten' = Queued(tag')
    /\ seq' = seq + 1
    /\ UNCHANGED <<got, overtook, closedBy>>
    /\ pc' = [pc EXCEPT ![c] = "closed"]
    /\ lastCmd' = [lastCmd EXCEPT ![uid[c]] = "unregister"]
    /\ presence' = IF panicked' THEN presence
                   ELSE [presence EXCEPT ![uid[c]] = "offline"]
    /\ UNCHANGED <<uid, wpc, broadcast>>
    /\ UNCHANGED ignored
    /\ UNCHANGED <<pushVars, listenVars, keyVars, httpVars>>

(***************************************************************************)
(* RunHub, case broadcast: a targeted frame for payload.UserID.            *)
(***************************************************************************)
HubBroadcast ==
    /\ ~panicked
    /\ broadcast # <<>>
    /\ LET payload == Head(broadcast)
           d == clients[payload.UserID]
       IN
         /\ broadcast' = Tail(broadcast)
         /\ IF d = NoClient
            THEN UNCHANGED <<clients, Send, sendClosed, panicked, lastCmd,
                             tag>>
            ELSE IF sendClosed[d]
            THEN panicked' = TRUE
                 /\ UNCHANGED <<clients, Send, sendClosed, lastCmd, tag>>
            ELSE IF HasRoom(Send[d])
            THEN /\ Send' = [Send EXCEPT ![d] = Append(@, payload.Message)]
                 /\ tag' = [tag EXCEPT ![d] = Append(@, Tag(@, NoCommand))]
                 /\ UNCHANGED <<clients, sendClosed, panicked, lastCmd>>
            ELSE /\ sendClosed' = [sendClosed EXCEPT ![d] = TRUE]
                 /\ clients' = EvictEntry(clients, payload.UserID)
                 /\ lastCmd' = [lastCmd EXCEPT ![payload.UserID] = "evict"]
                 /\ UNCHANGED <<Send, panicked, tag>>
    /\ unwritten' = Queued(tag')
    /\ UNCHANGED <<uid, pc, wpc, seq, got, overtook, closedBy>>
    /\ UNCHANGED <<ignored, presence>>
    /\ UNCHANGED <<pushVars, listenVars, keyVars, httpVars>>

(***************************************************************************)
(* readPump.                                                               *)
(***************************************************************************)
\* c.Conn.ReadMessage() returned a frame.  Only a typing frame with a string
\* recipient_id goes on to BroadcastMessage, which puts a BroadcastPayload
\* on hub.broadcast (the reader waits while that channel is full); every
\* other frame is skipped.
readPump(c, f) ==
    /\ ~panicked
    /\ pc[c] = "open"
    /\ closedBy[c] = {}
    /\ IF IsForwarded(f)
       THEN /\ Len(broadcast) < BroadcastBuf
            /\ broadcast' = Append(broadcast,
                                   [UserID |-> f.recipient_id,
                                    Message |-> TypingFrame(c, f)])
       ELSE UNCHANGED broadcast
    /\ UNCHANGED <<clients, uid, Send, sendClosed, pc, wpc, panicked,
                   lastCmd, seq, tag, got, overtook, unwritten,
                   closedBy>>
    /\ UNCHANGED presence
    /\ UNCHANGED <<pushVars, listenVars, keyVars, httpVars>>

ReadFrame(c, f) == readPump(c, f) /\ UNCHANGED ignored

\* A frame the reader has nothing to do for: bytes that do not decode, a
\* type other than "typing", a typing frame without a string recipient_id.
IsIgnorable(f) == f.type # "typing" \/ f.recipient_id = NoUser

\* The same step, with the readers that passed over a frame written down.
ReadFrameLogged(c, f) ==
    /\ readPump(c, f)
    /\ ignored' = IF IsIgnorable(f) THEN ignored \cup {c} ELSE ignored

\* Faulty variant of ReaderMayClose: the reader closes before it asks.
ReaderMayCloseEarly(c) == pc[c] \in {"unregistering", "closed"}

\* readPump's deferred function: c.Conn.Close() is the statement after
\* hub.unregister <- c, which returns once the Hub has received c.
ReaderMayClose(c) == pc[c] = "closed"

ReaderClose(c) ==
    /\ ~panicked
    /\ ReaderMayClose(c)
    /\ "reader" \notin closedBy[c]
    /\ closedBy' = [closedBy EXCEPT ![c] = @ \cup {"reader"}]
    /\ UNCHANGED <<clients, uid, Send, sendClosed, pc, wpc, broadcast,
                   panicked, lastCmd, seq, tag, got, overtook, unwritten>>
    /\ UNCHANGED <<ignored, presence>>
    /\ UNCHANGED <<pushVars, listenVars, keyVars, httpVars>>

\* c.Conn.ReadMessage() returned an error: break, then the deferred
\* hub.unregister <- c (unbuffered: it waits for the Hub).
ReadError(c) ==
    /\ ~panicked
    /\ pc[c] = "open"
    /\ pc' = [pc EXCEPT ![c] = "unregistering"]
    /\ UNCHANGED <<clients, uid, Send, sendClosed, wpc, broadcast, panicked,
                   lastCmd, seq, tag, got, overtook, unwritten,
                   closedBy>>
    /\ UNCHANGED <<ignored, presence>>
    /\ UNCHANGED <<pushVars, listenVars, keyVars, httpVars>>

(***************************************************************************)
(* writePump: for message := range c.Send { WriteMessage }                 *)
(***************************************************************************)
WriterWrite(c) ==
    /\ ~panicked
    /\ wpc[c] = "run"
    /\ Send[c] # <<>>
    /\ closedBy[c] = {}
    /\ Send' = [Send EXCEPT ![c] = AfterReceive(@)]
    /\ LET t == Received(tag[c])
       IN  /\ tag' = [tag EXCEPT ![c] = Aged(AfterReceive(@), t)]
           /\ overtook' = [overtook EXCEPT ![c] =
                            IF t.rank - 1 > @ THEN t.rank - 1 ELSE @]
           /\ got' = IF t.cmd = NoCommand THEN got
                     ELSE [got EXCEPT ![c] = Append(@, t.cmd)]
    /\ unwritten' = [unwritten EXCEPT ![c] = IF @ > 0 THEN @ - 1 ELSE @]
    /\ UNCHANGED <<clients, uid, sendClosed, pc, wpc, broadcast, panicked,
                   lastCmd, seq, closedBy>>
    /\ UNCHANGED <<ignored, presence>>
    /\ UNCHANGED <<pushVars, listenVars, keyVars, httpVars>>

\* WriteMessage failed: the writer returns with the frame it had taken.
WriterWriteError(c) ==
    /\ ~panicked
    /\ wpc[c] = "run"
    /\ Send[c] # <<>>
    /\ Send' = [Send EXCEPT ![c] = AfterReceive(@)]
    /\ tag' = [tag EXCEPT ![c] = Aged(AfterReceive(@), Received(tag[c]))]
    /\ unwritten' = [unwritten EXCEPT ![c] = IF @ > 0 THEN @ - 1 ELSE @]
    /\ wpc' = [wpc EXCEPT ![c] = "done"]
    /\ closedBy' = [closedBy EXCEPT ![c] = @ \cup {"writer"}]
    /\ UNCHANGED <<clients, uid, sendClosed, pc, broadcast, panicked,
                   lastCmd, seq, got, overtook>>
    /\ UNCHANGED <<ignored, presence>>
    /\ UNCHANGED <<pushVars, listenVars, keyVars, httpVars>>

\* The channel is closed and drained: the range loop ends.
WriterExit(c) ==
    /\ ~panicked
    /\ wpc[c] = "run"
    /\ Send[c] = <<>>
    /\ sendClosed[c]
    /\ wpc' = [wpc EXCEPT ![c] = "done"]
    /\ closedBy' = [closedBy EXCEPT ![c] = @ \cup {"writer"}]
    /\ UNCHANGED <<clients, uid, Send, sendClosed, pc, broadcast, panicked,
                   lastCmd, seq, tag, got, overtook, unwritten>>
    /\ UNCHANGED <<ignored, presence>>
    /\ UNCHANGED <<pushVars, listenVars, keyVars, httpVars>>

NextHub ==
    \/ \E c \in Clients, u \in UserIDs : HandleWebSocket(c, u)
    \/ \E c \in Clients : HubRegister(c)
    \/ \E c \in Clients : HubUnregister(c)
    \/ HubBroadcast
    \/ \E c \in Clients, f \in InboundFrames : ReadFrame(c, f)
    \/ \E c \in Clients : ReadError(c)
    \/ \E c \in Clients : ReaderClose(c)
    \/ \E c \in Clients : WriterWrite(c)
    \/ \E c \in Clients : WriterWriteError(c)
    \/ \E c \in Clients : WriterExit(c)

\* The Hub and the pumps, with the history of the readers kept.
NextHubLogged ==
    \/ \E c \in Clients, u \in UserIDs : HandleWebSocket(c, u)
    \/ \E c \in Clients : HubRegister(c)
    \/ \E c \in Clients : HubUnregister(c)
    \/ HubBroadcast
    \/ \E c \in Clients, f \in InboundFrames : ReadFrameLogged(c, f)
    \/ \E c \in Clients : ReadError(c)
    \/ \E c \in Clients : ReaderClose(c)
    \/ \E c \in Clients : WriterWrite(c)
    \/ \E c \in Clients : WriterWriteError(c)
    \/ \E c \in Clients : WriterExit(c)

(***************************************************************************)
(* Part II.  The push dispatcher (src/pkg/push/push.go).                   *)
(***************************************************************************)
\* Webhook requests (HandleNotify calls) of a run.
Events == 1..MaxEvents
\* Endpoint URLs of push subscriptions.  They are taken to be well-formed
\* URLs: http.NewRequest does not fail on them.
Endpoints == {"epA", "epB"}
\* Values of SUPABASE_SERVICE_ROLE_KEY: unset, or set.
ServiceKeys == {"", "srk"}
\* The status codes sendPushNamespace tests for.
StatusUnauthorized == 401
StatusForbidden == 403
StatusGone == 410
\* Status codes a push service may answer with: accepted (201), unknown
\* subscription (404), and the three above.
StatusCodes == {201, 404, StatusUnauthorized, StatusForbidden, StatusGone}
\* What webpush.SendNotification may return (resp, err): an error and no
\* response, or a response with one of the status codes.
TransportError == [err |-> TRUE, StatusCode |-> 0]
Outcomes ==
    {TransportError} \cup {[err |-> FALSE, StatusCode |-> c] : c \in StatusCodes}
\* No call made yet.
NoOutcome == [err |-> FALSE, StatusCode |-> 0]

\* record["receiver_id"] as encoding/json decodes it into interface{}: a
\* string, a float64, a value of another type, or nothing.
ReceiverValues ==
    { [kind |-> "string", str |-> "7", num |-> 0],
      [kind |-> "string", str |-> "ab", num |-> 0],
      [kind |-> "string", str |-> "", num |-> 0],
      [kind |-> "number", str |-> "", num |-> 7],
      [kind |-> "number", str |-> "", num |-> 12],
      [kind |-> "bool", str |-> "", num |-> 0],
      [kind |-> "absent", str |-> "", num |-> 0] }

(***************************************************************************)
(* Go strings are byte sequences holding UTF-8.  A text is modelled as the *)
(* sequence of its characters, a Go string as the sequence of its bytes.   *)
(* An ASCII character is one byte, named like the character; U+00E9 (e     *)
(* with acute accent) is the two bytes C3 A9.                              *)
(***************************************************************************)
\* What json.Marshal writes for a byte that is no valid UTF-8.
ReplacementChar == "U+FFFD"

\* The bytes of one character.
CharBytes(ch) == IF ch = "U+00E9" THEN <<"C3", "A9">> ELSE <<ch>>

\* The Go string holding a text.
RECURSIVE UTF8(_)
UTF8(text) ==
    IF text = <<>> THEN <<>> ELSE CharBytes(Head(text)) \o UTF8(Tail(text))

\* The text a receiver decodes from json.Marshal's output for a Go string:
\* a complete encoding gives its character, any other byte the replacement
\* character.
JSONText(str) ==
    LET Starts(n) == str[n] = "C3" /\ n < Len(str) /\ str[n + 1] = "A9"
        Ends(n) == str[n] = "A9" /\ n > 1 /\ str[n - 1] = "C3"
        marks == [n \in 1..Len(str) |->
                    IF Starts(n) THEN "U+00E9"
                    ELSE IF Ends(n) THEN ""
                    ELSE IF str[n] \in {"C3", "A9"} THEN ReplacementChar
                    ELSE str[n]]
        Kept(x) == x # ""
    IN  SelectSeq(marks, Kept)

\* n times the character ch.
Repeat(ch, n) == [i \in 1..n |-> ch]

\* The Go strings "Sent an image" and "...".
ImagePlaceholder ==
    UTF8(<<"S", "e", "n", "t", " ", "a", "n", " ", "i", "m", "a", "g", "e">>)
Ellipsis == UTF8(<<".", ".", ".">>)

\* if len(content) > 50 { content = content[:50] + "..." }
BodyLimit == 50

\* sendPushNamespace, its first lines: the Go string that becomes "body",
\* from the Go strings content and msgType.
NotificationBody(str, type) ==
    IF type = "image"
    THEN ImagePlaceholder
    ELSE IF Len(str) > BodyLimit
         THEN SubSeq(str, 1, BodyLimit) \o Ellipsis
         ELSE str

\* record["content"], as Go strings: the claim's example (59 characters), a
\* text of 26 two-byte characters, and a text whose 50th character takes two
\* bytes.
Contents ==
    { UTF8(Repeat("a", 59)), UTF8(Repeat("U+00E9", 26)),
      UTF8(Repeat("a", 49) \o <<"U+00E9", "a">>) }
\* record["type"]
MsgTypes == {"text", "image"}

\* WebhookPayload{Type, Table, Record}.
WebhookPayloads ==
    [type : {"INSERT", "UPDATE"}, table : {"messages", "friends"},
     receiver_id : ReceiverValues, content : Contents, msgType : MsgTypes]

\* fmt.Sprintf("%.0f", x) for a whole, non-negative x: its decimal digits.
Digit(d) ==
    CASE d = 0 -> "0" [] d = 1 -> "1" [] d = 2 -> "2" [] d = 3 -> "3"
      [] d = 4 -> "4" [] d = 5 -> "5" [] d = 6 -> "6" [] d = 7 -> "7"
      [] d = 8 -> "8" [] OTHER -> "9"

\* Faulty variant of FormatFloat0: the last digit only.
FormatFloat0LastDigit(n) == Digit(n % 10)

RECURSIVE FormatFloat0(_)
FormatFloat0(n) ==
    IF n < 10 THEN Digit(n) ELSE FormatFloat0(n \div 10) \o Digit(n % 10)

\* Faulty variant of ResolveRecipient: whatever is there is formatted.
ResolveRecipientAny(rid) ==
    IF rid.kind = "string" /\ rid.str # "" THEN rid.str
    ELSE IF rid.kind = "number" THEN FormatFloat0(rid.num)
    ELSE "<nil>"

\* handleNewMessage: receiverID, _ := record["receiver_id"].(string); if it
\* is "" and the field is a float64, its "%.0f" form.  "" means: return.
ResolveRecipient(rid) ==
    LET asString == IF rid.kind = "string" THEN rid.str ELSE ""
    IN  IF asString = "" /\ rid.kind = "number"
        THEN FormatFloat0(rid.num)
        ELSE asString

\* HandleNotify: if payload.Type != "INSERT" || payload.Table != "messages"
IsMessageInsert(payload) ==
    payload.type = "INSERT" /\ payload.table = "messages"

\* Faulty variant of SpawnTargets: the loop misses one subscription.
SpawnTargetsSkipOne(subs) ==
    IF subs = {} THEN {} ELSE subs \ {CHOOSE x \in subs : TRUE}

\* Faulty variant of SpawnTargets: no delivery to a user who is connected.
SpawnTargetsOffline(subs) ==
    IF \E u \in UserIDs : clients[u] # NoClient /\ store[u] = subs
    THEN {} ELSE subs

\* handleNewMessage: for _, sub := range subscriptions { go sendPush... }
SpawnTargets(subs) == subs

\* Faulty variant of IsPermanentlyInvalid: only 410 (the older revision,
\* src/push.go).
IsGoneOnly(status) == status = StatusGone

\* sendPushNamespace: resp.StatusCode == 410 || == 401 || == 403
IsPermanentlyInvalid(status) ==
    status = StatusGone \/ status = StatusUnauthorized
        \/ status = StatusForbidden

\* Faulty variant of DeleteRequests: never sends the request.
DeleteRequestsNone(key, endpoint) == <<>>

\* deleteSubscriptionFromSupabase(endpoint): the DELETE requests it sends,
\* by endpoint: none without a service role key, else one.
DeleteRequests(key, endpoint) ==
    IF key = "" THEN <<>> ELSE <<endpoint>>

InitPush ==
    /\ serviceKey \in ServiceKeys
    /\ store = [u \in UserIDs |-> IF u = "7" THEN Endpoints ELSE {"epB"}]
    /\ epc = [e \in Events |-> "idle"]
    /\ rcpt = [e \in Events |-> ""]
    /\ content = [e \in Events |-> <<>>]
    /\ msgType = [e \in Events |-> ""]
    /\ body = [e \in Events |-> [ep \in Endpoints |-> <<>>]]
    /\ returned = [e \in Events |-> {}]
    /\ tpc = [e \in Events |-> [ep \in Endpoints |-> "none"]]
    /\ resp = [e \in Events |-> [ep \in Endpoints |-> NoOutcome]]
    /\ attempts = [e \in Events |-> [ep \in Endpoints |-> 0]]
    /\ delCalls = [e \in Events |-> [ep \in Endpoints |-> <<>>]]
    /\ delReq = [e \in Events |-> [ep \in Endpoints |-> <<>>]]
    /\ lookupFailed = FALSE

\* The dispatcher at rest, as the Hub's specification sees it.
PushIdle == InitPush /\ serviceKey = ""

(***************************************************************************)
(* HandleNotify (a POST with a decodable body), then the start of          *)
(* go handleNewMessage(record): events that are no INSERT on messages are  *)
(* answered 200 and ignored; a record without a resolvable recipient is    *)
(* dropped; otherwise the subscriptions of the recipient are asked for.    *)
(***************************************************************************)
HandleNotify(e, payload) ==
    /\ epc[e] = "idle"
    /\ IF ~IsMessageInsert(payload)
       THEN /\ epc' = [epc EXCEPT ![e] = "ignored"]
            /\ UNCHANGED <<rcpt, content, msgType>>
       ELSE LET receiverID == ResolveRecipient(payload.receiver_id) IN
            IF receiverID = ""
            THEN /\ epc' = [epc EXCEPT ![e] = "dropped"]
                 /\ UNCHANGED <<rcpt, content, msgType>>
            ELSE /\ epc' = [epc EXCEPT ![e] = "lookup"]
                 /\ rcpt' = [rcpt EXCEPT ![e] = receiverID]
                 /\ content' = [content EXCEPT ![e] = payload.content]
                 /\ msgType' = [msgType EXCEPT ![e] = payload.msgType]
    /\ UNCHANGED <<serviceKey, lookupFailed, store, body, returned, tpc, resp, attempts,
                   delCalls, delReq>>
    /\ UNCHANGED <<hubVars, listenVars, keyVars, httpVars>>

\* "No request": the listener is not inside handleNewMessage.
NoEvent == 0

\* handleNewMessage returns to its caller.  The webhook started it with go;
\* the change-feed listener called it and goes back to reading.
ReturnToCaller(e) ==
    /\ IF lcur = e
       THEN lpc' = "read" /\ lcur' = NoEvent
       ELSE UNCHANGED <<lpc, lcur>>
    /\ UNCHANGED <<cur, link, hb, timer, feedLog, joins>>

(***************************************************************************)
(* getSubscriptionsFromSupabase returns: an error (network, status, body), *)
(* and handleNewMessage returns; or the rows of the recipient, and one     *)
(* goroutine per row is started.                                           *)
(***************************************************************************)
\* Faulty variant of AfterLookupError: the lookup is made again.
AfterLookupErrorRetry == "lookup"

\* handleNewMessage: if err != nil { log.Println(...); return }
AfterLookupError == "failed"

LookupFails(e) ==
    /\ epc[e] = "lookup"
    /\ epc' = [epc EXCEPT ![e] = AfterLookupError]
    /\ lookupFailed' = TRUE
    /\ ReturnToCaller(e)
    /\ UNCHANGED <<serviceKey, store, rcpt, content, msgType, body, returned,
                   tpc, resp, attempts, delCalls, delReq>>
    /\ UNCHANGED <<hubVars, keyVars, httpVars>>

LookupReturns(e) ==
    /\ epc[e] = "lookup"
    /\ LET subs == IF rcpt[e] \in DOMAIN store THEN store[rcpt[e]] ELSE {}
       IN  /\ returned' = [returned EXCEPT ![e] = subs]
           /\ tpc' = [tpc EXCEPT ![e] =
                         [ep \in Endpoints |->
                             IF ep \in SpawnTargets(subs) THEN "ready"
                             ELSE "none"]]
    /\ epc' = [epc EXCEPT ![e] = "spawned"]
    /\ ReturnToCaller(e)
    /\ UNCHANGED <<serviceKey, lookupFailed, store, rcpt, content, msgType, body, resp,
                   attempts, delCalls, delReq>>
    /\ UNCHANGED <<hubVars, keyVars, httpVars>>

(***************************************************************************)
(* sendPushNamespace(sub, ...): one webpush.SendNotification; on an error  *)
(* it returns; on a permanently invalid status it calls                    *)
(* deleteSubscriptionFromSupabase(sub.Endpoint), whose DELETE may or may   *)
(* not take effect in the store (its result is not looked at).             *)
(***************************************************************************)
SendPushNamespace(e, ep, outcome, deleted) ==
    /\ tpc[e][ep] = "ready"
    /\ attempts' = [attempts EXCEPT ![e][ep] = @ + 1]
    /\ body' = [body EXCEPT ![e][ep] =
                    NotificationBody(content[e], msgType[e])]
    /\ resp' = [resp EXCEPT ![e][ep] = outcome]
    /\ tpc' = [tpc EXCEPT ![e][ep] = "done"]
    /\ LET invalid == ~outcome.err /\ IsPermanentlyInvalid(outcome.StatusCode)
           calls == IF invalid THEN <<ep>> ELSE <<>>
           reqs == IF invalid THEN DeleteRequests(serviceKey, ep) ELSE <<>>
       IN  /\ delCalls' = [delCalls EXCEPT ![e][ep] = @ \o calls]
           /\ delReq' = [delReq EXCEPT ![e][ep] = @ \o reqs]
           /\ store' = IF deleted
                       THEN [u \in UserIDs |->
                               store[u] \ {reqs[i] : i \in 1..Len(reqs)}]
                       ELSE store
    /\ UNCHANGED <<serviceKey, lookupFailed, epc, rcpt, content, msgType, returned>>
    /\ UNCHANGED <<hubVars, listenVars, keyVars, httpVars>>

NextPush ==
    \/ \E e \in Events, payload \in WebhookPayloads : HandleNotify(e, payload)
    \/ \E e \in Events : LookupFails(e)
    \/ \E e \in Events : LookupReturns(e)
    \/ \E e \in Events, ep \in Endpoints, outcome \in Outcomes,
          deleted \in BOOLEAN : SendPushNamespace(e, ep, outcome, deleted)

\* Every goroutine of the event e has returned.
EventOver(e) ==
    /\ epc[e] \in {"ignored", "dropped", "failed", "spawned"}
    /\ \A ep \in Endpoints : tpc[e][ep] \in {"none", "done"}

\* The server goes on serving /api/notify: the request that follows a
\* finished one is a new call of HandleNotify, with variables of its own.
ServeNext(e) ==
    /\ EventOver(e)
    /\ lcur # e
    /\ epc' = [epc EXCEPT ![e] = "idle"]
    /\ rcpt' = [rcpt EXCEPT ![e] = ""]
    /\ content' = [content EXCEPT ![e] = <<>>]
    /\ msgType' = [msgType EXCEPT ![e] = ""]
    /\ body' = [body EXCEPT ![e] = [ep \in Endpoints |-> <<>>]]
    /\ returned' = [returned EXCEPT ![e] = {}]
    /\ tpc' = [tpc EXCEPT ![e] = [ep \in Endpoints |-> "none"]]
    /\ resp' = [resp EXCEPT ![e] = [ep \in Endpoints |-> NoOutcome]]
    /\ attempts' = [attempts EXCEPT ![e] = [ep \in Endpoints |-> 0]]
    /\ delCalls' = [delCalls EXCEPT ![e] = [ep \in Endpoints |-> <<>>]]
    /\ delReq' = [delReq EXCEPT ![e] = [ep \in Endpoints |-> <<>>]]
    /\ UNCHANGED <<serviceKey, lookupFailed, store>>
    /\ UNCHANGED <<hubVars, listenVars, keyVars, httpVars>>

\* The dispatcher serving one request after another.
NextPushSerial ==
    \/ \E e \in Events, payload \in WebhookPayloads : HandleNotify(e, payload)
    \/ \E e \in Events : LookupFails(e)
    \/ \E e \in Events : LookupReturns(e)
    \/ \E e \in Events, ep \in Endpoints, outcome \in Outcomes,
          deleted \in BOOLEAN : SendPushNamespace(e, ep, outcome, deleted)
    \/ \E e \in Events : ServeNext(e)

\* The dispatcher beside the Hub: connections register and unregister
\* while webhook requests are served.
NextPushBesideHub ==
    \/ \E c \in Clients, u \in UserIDs : HandleWebSocket(c, u)
    \/ \E c \in Clients : HubRegister(c)
    \/ \E c \in Clients : ReadError(c)
    \/ \E c \in Clients : HubUnregister(c)
    \/ \E e \in Events, payload \in WebhookPayloads : HandleNotify(e, payload)
    \/ \E e \in Events : LookupFails(e)
    \/ \E e \in Events : LookupReturns(e)
    \/ \E e \in Events, ep \in Endpoints, outcome \in Outcomes,
          deleted \in BOOLEAN : SendPushNamespace(e, ep, outcome, deleted)

(***************************************************************************)
(* Part III.  The change-feed listener (src/unnamed/part_001):             *)
(* StartRealtimeListener and connectAndListen.                             *)
(***************************************************************************)
\* The connections a run may hold at a time: the current one and one that
\* is closed but whose heartbeat goroutine has not noticed yet.
Conns == {"k1", "k2"}
NoConn == "none"

\* time.Sleep(5 * time.Second), in seconds.
ReconnectDelay == 5

\* The positions of the listener inside its for loop.
LoopStates == {"dial", "join", "read", "handle", "sleep"}

\* Faulty variant of AfterDisconnect: the supervising loop ends.
AfterDisconnectExit == "exited"

\* StartRealtimeListener: connectAndListen returned; the loop sleeps and
\* goes round again.
AfterDisconnect == "sleep"

\* record["receiver_id"] of the records on the change feed.
FeedReceivers ==
    { [kind |-> "string", str |-> "ab", num |-> 0],
      [kind |-> "absent", str |-> "", num |-> 0] }

\* The frames the change feed may deliver (what c.ReadMessage returns):
\* bytes that are no JSON array; an array of fewer than 5 elements; an array
\* whose element 3 is no string; an event other than postgres_changes; a
\* postgres_changes frame whose payload, payload.data or data.record is no
\* object; and a change with its type, table and record.
FeedFrames ==
    [kind : {"undecodable", "short", "event_not_string", "other_event",
             "payload_not_map", "data_not_map"},
     type : {""}, table : {""}, receiver_id : {CHOOSE r \in FeedReceivers :
                                                  r.kind = "absent"}]
    \cup [kind : {"record_not_map", "change"},
          type : {"INSERT", "UPDATE"}, table : {"messages", "friends"},
          receiver_id : FeedReceivers]

\* The content and type of the records on the change feed.
FeedContent == UTF8(<<"h", "i">>)
FeedMsgType == "text"

\* connectAndListen, lines 219-231: the continue statements before the event
\* is looked at.
SkipsDecode(f) == f.kind \in {"undecodable", "short", "event_not_string"}

\* Faulty variant of ReachesDispatch: only the type is looked at.
ReachesDispatchUnchecked(f) == f.type = "INSERT"

\* connectAndListen, lines 233-257: does the frame reach handleNewMessage?
ReachesDispatch(f) ==
    /\ ~SkipsDecode(f)
    /\ f.kind # "other_event"
    /\ f.kind # "payload_not_map"
    /\ f.kind # "data_not_map"
    /\ f.type = "INSERT"
    /\ f.kind # "record_not_map"

\* A frame that is not of the expected shape.
IsMalformed(f) ==
    f.kind \in {"undecodable", "short", "event_not_string",
                "payload_not_map", "data_not_map", "record_not_map"}

\* The log of frame classes of a connection after one more frame: the last
\* two classes read, without repetitions.
Logged(log, class) ==
    IF log # <<>> /\ log[Len(log)] = class THEN log
    ELSE IF log = <<>> THEN <<class>>
    ELSE <<log[Len(log)], class>>

\* c.Close() of connectAndListen's defer: a closed connection is forgotten
\* once no heartbeat goroutine holds it.
Closed(k) == IF hb[k] = "run" THEN "closed" ELSE "free"

\* The join frames written on the connections that are still held: a
\* connection that is forgotten takes its count with it.
JoinsOfHeld(l) == [k \in Conns |-> IF l[k] = "free" THEN 0 ELSE joins[k]]

InitListen ==
    /\ lpc = "start"
    /\ cur = NoConn
    /\ link = [k \in Conns |-> "free"]
    /\ hb = [k \in Conns |-> "off"]
    /\ timer = 0
    /\ lcur = NoEvent
    /\ feedLog = <<>>
    /\ joins = [k \in Conns |-> 0]

\* StartRealtimeListener up to its loop: without a URL or a token it returns.
StartRealtimeListener(configured) ==
    /\ lpc = "start"
    /\ lpc' = IF configured THEN "dial" ELSE "disabled"
    /\ UNCHANGED <<cur, link, hb, timer, lcur, feedLog, joins>>
    /\ UNCHANGED <<hubVars, pushVars, keyVars, httpVars>>

\* websocket.DefaultDialer.Dial failed: connectAndListen returns.
DialFails ==
    /\ lpc = "dial"
    /\ lpc' = AfterDisconnect
    /\ timer' = 0
    /\ UNCHANGED <<cur, link, hb, lcur, feedLog, joins>>
    /\ UNCHANGED <<hubVars, pushVars, keyVars, httpVars>>

\* Dial returned the connection k.
DialSucceeds(k) ==
    /\ lpc = "dial"
    /\ link[k] = "free"
    /\ link' = [link EXCEPT ![k] = "open"]
    /\ cur' = k
    /\ feedLog' = <<>>
    /\ lpc' = "join"
    /\ UNCHANGED <<hb, timer, lcur, joins>>
    /\ UNCHANGED <<hubVars, pushVars, keyVars, httpVars>>

\* c.WriteJSON(phx_join) failed: return, and the deferred c.Close().
JoinFails ==
    /\ lpc = "join"
    /\ link' = [link EXCEPT ![cur] = Closed(cur)]
    /\ cur' = NoConn
    /\ lpc' = AfterDisconnect
    /\ timer' = 0
    /\ joins' = JoinsOfHeld(link')
    /\ UNCHANGED <<hb, lcur, feedLog>>
    /\ UNCHANGED <<hubVars, pushVars, keyVars, httpVars>>

\* The join frame is written; the heartbeat goroutine is started and the
\* read loop entered.
JoinSucceeds ==
    /\ lpc = "join"
    /\ joins' = [joins EXCEPT ![cur] = @ + 1]
    /\ hb' = [hb EXCEPT ![cur] = "run"]
    /\ lpc' = "read"
    /\ UNCHANGED <<cur, link, timer, lcur, feedLog>>
    /\ UNCHANGED <<hubVars, pushVars, keyVars, httpVars>>

\* The request a record read from the feed becomes: the first unused one.
NextEvent == CHOOSE e \in Events : epc[e] = "idle" /\ \A d \in 1..(e - 1) : epc[d] # "idle"

\* c.ReadMessage() returned a frame.  A frame that does not reach
\* handleNewMessage is passed over (continue); for one that does, the
\* listener calls handleNewMessage(record) itself: it returns at once without
\* a recipient, and else the listener is inside it until the subscriptions
\* are there.
ReadFeed(f) ==
    /\ lpc = "read"
    /\ IF ReachesDispatch(f)
       THEN /\ \E e \in Events : epc[e] = "idle"
            /\ LET e == NextEvent
                   receiverID == ResolveRecipient(f.receiver_id)
               IN  IF receiverID = ""
                   THEN /\ epc' = [epc EXCEPT ![e] = "dropped"]
                        /\ UNCHANGED <<rcpt, content, msgType, lpc, lcur>>
                   ELSE /\ epc' = [epc EXCEPT ![e] = "lookup"]
                        /\ rcpt' = [rcpt EXCEPT ![e] = receiverID]
                        /\ content' = [content EXCEPT ![e] = FeedContent]
                        /\ msgType' = [msgType EXCEPT ![e] = FeedMsgType]
                        /\ lpc' = "handle"
                        /\ lcur' = e
            /\ feedLog' = Logged(feedLog, f.table)
       ELSE /\ feedLog' = IF IsMalformed(f) THEN Logged(feedLog, "malformed")
                          ELSE feedLog
            /\ UNCHANGED <<epc, rcpt, content, msgType, lpc, lcur>>
    /\ UNCHANGED <<cur, link, hb, timer, joins>>
    /\ UNCHANGED <<serviceKey, lookupFailed, store, body, returned, tpc, resp, attempts,
                   delCalls, delReq>>
    /\ UNCHANGED <<hubVars, keyVars, httpVars>>

\* c.ReadMessage() returned an error: return, and the deferred c.Close().
\* The heartbeat goroutine is not told.
ReadFails ==
    /\ lpc = "read"
    /\ link' = [link EXCEPT ![cur] = Closed(cur)]
    /\ hb' = [hb EXCEPT ![cur] = IF @ = "run" THEN "run" ELSE "off"]
    /\ cur' = NoConn
    /\ lpc' = AfterDisconnect
    /\ timer' = 0
    /\ joins' = JoinsOfHeld(link')
    /\ UNCHANGED <<lcur, feedLog>>
    /\ UNCHANGED <<hubVars, pushVars, keyVars, httpVars>>

\* Faulty variant of AfterHeartbeatError: the goroutine waits for the next
\* tick.
AfterHeartbeatErrorGoesOn(l) == "run"

\* The heartbeat goroutine after if err := c.WriteJSON(...); err != nil
\* { return }: ended, on a connection that is open ("failed") or not.
AfterHeartbeatError(l) == IF l = "open" THEN "failed" ELSE "off"

\* The heartbeat goroutine of connection k: c.WriteJSON(heartbeat) failed,
\* and the goroutine returns.  On a closed connection the write always
\* fails; on an open one it may.  Nothing else is done.
HeartbeatFails(k) ==
    /\ hb[k] = "run"
    /\ hb' = [hb EXCEPT ![k] = AfterHeartbeatError(link[k])]
    /\ link' = IF link[k] = "closed" /\ hb'[k] # "run"
               THEN [link EXCEPT ![k] = "free"]
               ELSE link
    /\ joins' = JoinsOfHeld(link')
    /\ UNCHANGED <<lpc, cur, timer, lcur, feedLog>>
    /\ UNCHANGED <<hubVars, pushVars, keyVars, httpVars>>

\* The reconnect delay passes.
Tick ==
    /\ lpc = "sleep"
    /\ timer < ReconnectDelay
    /\ timer' = ReconnectDelay
    /\ UNCHANGED <<lpc, cur, link, hb, lcur, feedLog, joins>>
    /\ UNCHANGED <<hubVars, pushVars, keyVars, httpVars>>

\* time.Sleep returns: the loop calls connectAndListen again.
WakeUp ==
    /\ lpc = "sleep"
    /\ timer = ReconnectDelay
    /\ lpc' = "dial"
    /\ UNCHANGED <<cur, link, hb, timer, lcur, feedLog, joins>>
    /\ UNCHANGED <<hubVars, pushVars, keyVars, httpVars>>

NextListen ==
    \/ \E configured \in BOOLEAN : StartRealtimeListener(configured)
    \/ DialFails
    \/ \E k \in Conns : DialSucceeds(k)
    \/ JoinFails
    \/ JoinSucceeds
    \/ \E f \in FeedFrames : ReadFeed(f)
    \/ ReadFails
    \/ \E k \in Conns : HeartbeatFails(k)
    \/ Tick
    \/ WakeUp
    \/ \E e \in Events : LookupFails(e)
    \/ \E e \in Events : LookupReturns(e)
    \/ \E e \in Events, ep \in Endpoints, outcome \in Outcomes,
          deleted \in BOOLEAN : SendPushNamespace(e, ep, outcome, deleted)

(***************************************************************************)
(* The revision of the listener in src/push.go.  It differs from the one   *)
(* above in two places: connectAndListen writes no join frame, and          *)
(* sendPushNamespace deletes a subscription on 410 only.                    *)
(***************************************************************************)
\* src/push.go, connectAndListen after Dial: the heartbeat goroutine is
\* started and the read loop entered; nothing is written first.
ConnectAndListenNoJoin ==
    /\ lpc = "join"
    /\ hb' = [hb EXCEPT ![cur] = "run"]
    /\ lpc' = "read"
    /\ UNCHANGED <<cur, link, timer, lcur, feedLog, joins>>
    /\ UNCHANGED <<hubVars, pushVars, keyVars, httpVars>>

\* src/push.go, sendPushNamespace: if resp.StatusCode == 410.
SendPushNamespaceGone(e, ep, outcome, deleted) ==
    /\ tpc[e][ep] = "ready"
    /\ attempts' = [attempts EXCEPT ![e][ep] = @ + 1]
    /\ body' = [body EXCEPT ![e][ep] =
                    NotificationBody(content[e], msgType[e])]
    /\ resp' = [resp EXCEPT ![e][ep] = outcome]
    /\ tpc' = [tpc EXCEPT ![e][ep] = "done"]
    /\ LET gone == ~outcome.err /\ outcome.StatusCode = StatusGone
           calls == IF gone THEN <<ep>> ELSE <<>>
           reqs == IF gone THEN DeleteRequests(serviceKey, ep) ELSE <<>>
       IN  /\ delCalls' = [delCalls EXCEPT ![e][ep] = @ \o calls]
           /\ delReq' = [delReq EXCEPT ![e][ep] = @ \o reqs]
           /\ store' = IF deleted
                       THEN [u \in UserIDs |->
                               store[u] \ {reqs[i] : i \in 1..Len(reqs)}]
                       ELSE store
    /\ UNCHANGED <<serviceKey, lookupFailed, epc, rcpt, content, msgType, returned>>
    /\ UNCHANGED <<hubVars, listenVars, keyVars, httpVars>>

NextListenNoJoin ==
    \/ \E configured \in BOOLEAN : StartRealtimeListener(configured)
    \/ DialFails
    \/ \E k \in Conns : DialSucceeds(k)
    \/ ConnectAndListenNoJoin
    \/ \E f \in FeedFrames : ReadFeed(f)
    \/ ReadFails
    \/ \E k \in Conns : HeartbeatFails(k)
    \/ Tick
    \/ WakeUp
    \/ \E e \in Events : LookupFails(e)
    \/ \E e \in Events : LookupReturns(e)
    \/ \E e \in Events, ep \in Endpoints, outcome \in Outcomes,
          deleted \in BOOLEAN : SendPushNamespaceGone(e, ep, outcome, deleted)

(***************************************************************************)
(* Part IV.  The signing keys (pkg/push/push.go, InitPush).                *)
(*                                                                         *)
(* A key is a string; the model tells strings apart by where they come     *)
(* from.  A process is started from main (main.go calls InitPush once) or  *)
(* serves requests through Handler (api/index.go calls InitPush at the top *)
(* of every request).  The file vapid_keys.json outlives the process.      *)
(***************************************************************************)
MaxRuns == 2

MaxGenerated == 2

EntryPoints == {"main", "handler"}

\* The empty string.
EmptyKey == [origin |-> "", half |-> "", n |-> 0]

EnvKey(half) == [origin |-> "env", half |-> half, n |-> 0]

FileKey(half) == [origin |-> "file", half |-> half, n |-> 0]

\* The halves of the n-th pair webpush.GenerateVAPIDKeys returns: each call
\* draws a new private key.
GeneratedKey(half, n) == [origin |-> "generated", half |-> half, n |-> n]

\* type VapidKeys struct { PrivateKey, PublicKey string }
VapidKeys(privateKey, publicKey) ==
    [PrivateKey |-> privateKey, PublicKey |-> publicKey]

NoKeys == VapidKeys(EmptyKey, EmptyKey)

\* os.Getenv of the two variables: each is set or not.
Environments ==
    { VapidKeys(privateKey, publicKey) :
          privateKey \in {EmptyKey, EnvKey("private")},
          publicKey \in {EmptyKey, EnvKey("public")} }

\* json.NewEncoder(file).Encode(keys): a JSON object, here the set of its
\* members, named by the struct tags.
EncodeVapidKeys(keys) ==
    { <<"privateKey", keys.PrivateKey>>, <<"publicKey", keys.PublicKey>> }

\* The value of the member of a JSON object, the empty string without one.
Member(object, name) ==
    IF \E m \in object : m[1] = name
    THEN (CHOOSE m \in object : m[1] = name)[2]
    ELSE EmptyKey

\* Faulty variant of DecodeVapidKeys: the two members are taken for each
\* other.
DecodeVapidKeysSwapped(object) ==
    VapidKeys(Member(object, "publicKey"), Member(object, "privateKey"))

\* json.NewDecoder(file).Decode(&keys) of a JSON object.
DecodeVapidKeys(object) ==
    VapidKeys(Member(object, "privateKey"), Member(object, "publicKey"))

\* vapid_keys.json: not there, there without being a JSON value, or a JSON
\* object.
AbsentFile == [kind |-> "absent", object |-> {}]

GarbageFile == [kind |-> "garbage", object |-> {}]

JSONFile(object) == [kind |-> "json", object |-> object]

\* What the file can be before the first process starts.
InitialFiles ==
    { AbsentFile,
      GarbageFile,
      JSONFile({}),
      JSONFile({ <<"privateKey", FileKey("private")>> }),
      JSONFile(EncodeVapidKeys(VapidKeys(FileKey("private"),
                                         FileKey("public")))) }

\* loadVapidKeysFromFile: os.Open fails, Decode fails, or the keys are
\* returned.
loadVapidKeysFromFile(file) ==
    IF file.kind = "json"
    THEN [err |-> FALSE, keys |-> DecodeVapidKeys(file.object)]
    ELSE [err |-> TRUE, keys |-> NoKeys]

\* saveVapidKeysToFile: os.Create fails and the file is as before; or it has
\* truncated the file and Encode fails; or the object is written.
SaveOutcomes == {"ok", "create_fails", "encode_fails"}

saveVapidKeysToFile(file, keys, outcome) ==
    IF outcome = "create_fails" THEN file
    ELSE IF outcome = "encode_fails" THEN GarbageFile
    ELSE JSONFile(EncodeVapidKeys(keys))

\* Faulty variant of NeedsNextSource: one key is enough.
NeedsNextSourceNeither(keys) ==
    keys.PrivateKey = EmptyKey /\ keys.PublicKey = EmptyKey

\* if vapidPrivateKey == "" || vapidPublicKey == ""
NeedsNextSource(keys) ==
    keys.PrivateKey = EmptyKey \/ keys.PublicKey = EmptyKey

\* Faulty variant of AfterSave: InitPush gives up when the save fails.
AfterSaveFatal(outcome) == IF outcome = "ok" THEN "ready" ELSE "down"

\* Where InitPush is after saveVapidKeysToFile: the error only selects the
\* lines logged, and InitPush returns.
AfterSave(outcome) == "ready"

\* The history record of a pair that was never saved.
NotPersisted == [keys |-> NoKeys, run |-> 0]

InitKeys ==
    /\ kpc = "down"
    /\ entry = "main"
    /\ env = NoKeys
    /\ keyFile \in InitialFiles
    /\ vapidPrivateKey = EmptyKey
    /\ vapidPublicKey = EmptyKey
    /\ generated = 0
    /\ run = 0
    /\ consulted = <<>>
    /\ persisted = NotPersisted
    /\ resolved = NoKeys
    /\ served = {}
    /\ signed = {}

KeysIdle == InitKeys /\ keyFile = AbsentFile

\* InitPush returns: the first return of a run is remembered.
Returns(keys) ==
    resolved' = IF resolved = NoKeys THEN keys ELSE resolved

\* A process is started: package variables hold the empty string, and
\* InitPush is called, by main or by the Handler of the first request.
StartProcess(how, environment) ==
    /\ kpc = "down"
    /\ run < MaxRuns
    /\ run' = run + 1
    /\ entry' = how
    /\ env' = environment
    /\ vapidPrivateKey' = EmptyKey
    /\ vapidPublicKey' = EmptyKey
    /\ consulted' = <<>>
    /\ resolved' = NoKeys
    /\ served' = {}
    /\ signed' = {}
    /\ kpc' = "env"
    /\ UNCHANGED <<keyFile, generated, persisted>>
    /\ UNCHANGED <<hubVars, pushVars, listenVars, httpVars>>

\* InitPush, the two os.Getenv assignments and the first test.
InitPushEnv ==
    /\ kpc = "env"
    /\ vapidPrivateKey' = env.PrivateKey
    /\ vapidPublicKey' = env.PublicKey
    /\ consulted' = <<[source |-> "env", gave |-> env]>>
    /\ IF NeedsNextSource(env)
       THEN /\ kpc' = "file"
            /\ UNCHANGED resolved
       ELSE /\ kpc' = "ready"
            /\ Returns(env)
    /\ UNCHANGED <<entry, env, keyFile, generated, run, persisted, served>>
    /\ UNCHANGED signed
    /\ UNCHANGED <<hubVars, pushVars, listenVars, httpVars>>

\* InitPush, loadVapidKeysFromFile: without an error both variables are
\* overwritten; then the second test.
InitPushFile ==
    /\ kpc = "file"
    /\ LET loaded == loadVapidKeysFromFile(keyFile)
           keys == IF loaded.err
                   THEN VapidKeys(vapidPrivateKey, vapidPublicKey)
                   ELSE loaded.keys
       IN  /\ vapidPrivateKey' = keys.PrivateKey
           /\ vapidPublicKey' = keys.PublicKey
           /\ consulted' = Append(consulted, [source |-> "file",
                                              gave |-> loaded.keys])
           /\ IF NeedsNextSource(keys)
              THEN /\ kpc' = "generate"
                   /\ UNCHANGED resolved
              ELSE /\ kpc' = "ready"
                   /\ Returns(keys)
    /\ UNCHANGED <<entry, env, keyFile, generated, run, persisted, served>>
    /\ UNCHANGED signed
    /\ UNCHANGED <<hubVars, pushVars, listenVars, httpVars>>

\* InitPush, webpush.GenerateVAPIDKeys: log.Fatal ends the process on an
\* error; else both variables take the new pair.
InitPushGenerate(ok) ==
    /\ kpc = "generate"
    /\ IF ok
       THEN /\ generated < MaxGenerated
            /\ generated' = generated + 1
            /\ vapidPrivateKey' = GeneratedKey("private", generated + 1)
            /\ vapidPublicKey' = GeneratedKey("public", generated + 1)
            /\ consulted' =
                  Append(consulted,
                         [source |-> "generate",
                          gave |-> VapidKeys(vapidPrivateKey',
                                             vapidPublicKey')])
            /\ kpc' = "save"
       ELSE /\ kpc' = "down"
            /\ UNCHANGED <<generated, vapidPrivateKey, vapidPublicKey,
                           consulted>>
    /\ UNCHANGED <<entry, env, keyFile, run, persisted, resolved, served>>
    /\ UNCHANGED signed
    /\ UNCHANGED <<hubVars, pushVars, listenVars, httpVars>>

\* InitPush, saveVapidKeysToFile and the return: an error is only logged.
InitPushSave(outcome) ==
    /\ kpc = "save"
    /\ LET keys == VapidKeys(vapidPrivateKey, vapidPublicKey)
       IN  /\ keyFile' = saveVapidKeysToFile(keyFile, keys, outcome)
           /\ consulted' = Append(consulted,
                                  [source |-> "save",
                                   gave |-> IF outcome = "ok" THEN keys
                                            ELSE NoKeys])
           /\ persisted' = IF outcome = "ok"
                           THEN [keys |-> keys, run |-> run]
                           ELSE persisted
           /\ Returns(keys)
    /\ kpc' = AfterSave(outcome)
    /\ UNCHANGED <<entry, env, vapidPrivateKey, vapidPublicKey, generated,
                   run, served>>
    /\ UNCHANGED signed
    /\ UNCHANGED <<hubVars, pushVars, listenVars, httpVars>>

\* api/index.go, Handler: the next request calls push.InitPush() again.
HandlerRequest ==
    /\ kpc = "ready"
    /\ entry = "handler"
    /\ kpc' = "env"
    /\ consulted' = <<>>
    /\ UNCHANGED <<entry, env, keyFile, vapidPrivateKey, vapidPublicKey,
                   generated, run, persisted, resolved, served>>
    /\ UNCHANGED signed
    /\ UNCHANGED <<hubVars, pushVars, listenVars, httpVars>>

\* /api/config: "vapidPublicKey": push.GetVapidPublicKey().
ServeConfig ==
    /\ kpc = "ready"
    /\ served' = served \cup {vapidPublicKey}
    /\ UNCHANGED <<kpc, entry, env, keyFile, vapidPrivateKey, vapidPublicKey,
                   generated, run, consulted, persisted, resolved>>
    /\ UNCHANGED signed
    /\ UNCHANGED <<hubVars, pushVars, listenVars, httpVars>>

\* sendPushNotification of a delivery goroutine reads both package variables
\* into webpush.Options.  Deliveries run beside the requests served, and so
\* beside the InitPush call of a later request.
SignDelivery ==
    /\ kpc # "down"
    /\ resolved # NoKeys
    /\ signed' = signed \cup {VapidKeys(vapidPrivateKey, vapidPublicKey)}
    /\ UNCHANGED <<kpc, entry, env, keyFile, vapidPrivateKey, vapidPublicKey,
                   generated, run, consulted, persisted, resolved, served>>
    /\ UNCHANGED <<hubVars, pushVars, listenVars, httpVars>>

\* The process ends; the file stays.
ProcessExit ==
    /\ kpc = "ready"
    /\ kpc' = "down"
    /\ UNCHANGED <<entry, env, keyFile, vapidPrivateKey, vapidPublicKey,
                   generated, run, consulted, persisted, resolved, served>>
    /\ UNCHANGED signed
    /\ UNCHANGED <<hubVars, pushVars, listenVars, httpVars>>

NextKeys ==
    \/ \E how \in EntryPoints, environment \in Environments :
          StartProcess(how, environment)
    \/ InitPushEnv
    \/ InitPushFile
    \/ \E ok \in BOOLEAN : InitPushGenerate(ok)
    \/ \E outcome \in SaveOutcomes : InitPushSave(outcome)
    \/ HandlerRequest
    \/ ServeConfig
    \/ SignDelivery
    \/ ProcessExit

(***************************************************************************)
(* Part V.  The presence lookup (src/handlers/users.go, GetOnlineUsers).   *)
(*                                                                         *)
(* An identifier of the ids parameter is the sequence of its characters.   *)
(* One request is followed through its loop; each IsUserOnline call holds  *)
(* the read lock of hub.mutex from RLock to its return.                    *)
(***************************************************************************)
MaxIDs == 2

\* Identifiers a request may name: a number, a name, and a number followed
\* by a letter.
IDTexts == { <<"7">>, <<"a", "b">>, <<"7", "x">> }

\* strings.Split(idsParam, ","): no element for an empty parameter (the
\* handler returns before the split), else the identifiers named.
IDLists == UNION { [1..n -> IDTexts] : n \in 0..MaxIDs }

\* The string of a sequence of characters.
RECURSIVE Text(_)
Text(chars) == IF chars = <<>> THEN "" ELSE Head(chars) \o Text(Tail(chars))

IsDigit(ch) == \E d \in 0..9 : Digit(d) = ch

DigitValue(ch) == CHOOSE d \in 0..9 : Digit(d) = ch

\* The value of the leading digits of chars, after the value acc.
RECURSIVE ScanDigits(_, _)
ScanDigits(chars, acc) ==
    IF chars = <<>> \/ ~IsDigit(Head(chars)) THEN acc
    ELSE ScanDigits(Tail(chars), acc * 10 + DigitValue(Head(chars)))

\* fmt.Sscanf(idStr, "%d", &id): the leading digits are the number, what
\* follows them is left unread; an error without a leading digit.
Sscanf(chars) ==
    IF chars = <<>> \/ ~IsDigit(Head(chars))
    THEN [err |-> TRUE, id |-> 0]
    ELSE [err |-> FALSE, id |-> ScanDigits(chars, 0)]

\* IsUserOnline(id) for an int64: idStr = fmt.Sprintf("%d", v), then
\* _, ok := hub.clients[idStr].
IsUserOnlineInt64(id) ==
    LET idStr == FormatFloat0(id)
    IN  idStr \in DOMAIN clients /\ IsUserOnline(idStr)

\* Is the user named by the characters registered?
RegisteredNow(chars) ==
    Text(chars) \in DOMAIN clients /\ IsUserOnline(Text(chars))

InitLookup ==
    /\ hpc = "idle"
    /\ hreq = <<>>
    /\ hids = <<>>
    /\ honline = <<>>
    /\ hwas = {}

\* The loop goes to the next identifier, or the response is encoded.
Advance ==
    /\ hids' = Tail(hids)
    /\ hpc' = IF Tail(hids) = <<>> THEN "done" ELSE "loop"
    /\ hwas' = IF RegisteredNow(Head(hids))
               THEN hwas \cup {Text(Head(hids))} ELSE hwas

\* GetOnlineUsers is called with the ids parameter.
GetOnlineUsers(ids) ==
    /\ hpc = "idle"
    /\ hreq' = ids
    /\ hids' = ids
    /\ honline' = <<>>
    /\ hpc' = IF ids = <<>> THEN "done" ELSE "loop"
    /\ UNCHANGED hwas
    /\ UNCHANGED adminVars
    /\ UNCHANGED <<hubVars, pushVars, listenVars, keyVars>>

\* The loop body up to IsUserOnline's hub.mutex.RLock(): an identifier that
\* does not scan is passed over.
ScanID ==
    /\ hpc = "loop"
    /\ IF Sscanf(hids[1]).err
       THEN Advance
       ELSE /\ hpc' = "rlocked"
            /\ UNCHANGED <<hids, hwas>>
    /\ UNCHANGED <<hreq, honline>>
    /\ UNCHANGED adminVars
    /\ UNCHANGED <<hubVars, pushVars, listenVars, keyVars>>

\* IsUserOnline reads the map and returns, releasing the read lock; the
\* identifier is appended when it returned true.
IsUserOnlineReturns ==
    /\ hpc = "rlocked"
    /\ LET id == Sscanf(hids[1]).id
       IN  honline' = IF IsUserOnlineInt64(id) THEN Append(honline, id)
                      ELSE honline
    /\ Advance
    /\ UNCHANGED hreq
    /\ UNCHANGED adminVars
    /\ UNCHANGED <<hubVars, pushVars, listenVars, keyVars>>

\* The Hub and the readers run beside the request; the writers are not
\* followed here, they do not touch the connection map.
NextLookup ==
    \/ \E c \in Clients, u \in UserIDs : HandleWebSocket(c, u)
    \/ \E c \in Clients : HubRegister(c)
    \/ \E c \in Clients : HubUnregister(c)
    \/ HubBroadcast
    \/ \E c \in Clients, f \in InboundFrames : ReadFrame(c, f)
    \/ \E c \in Clients : ReadError(c)
    \/ \E ids \in IDLists : GetOnlineUsers(ids)
    \/ ScanID
    \/ IsUserOnlineReturns

(***************************************************************************)
(* Part VI.  Account deletion (src/handlers/admin.go, DeleteUserAccount).  *)
(*                                                                         *)
(* The handler keeps no state between requests; a request is the method,   *)
(* the value the context holds under "user_id", the body, and what the     *)
(* store answers to the calls the handler makes.                           *)
(***************************************************************************)
StatusOK == 200

StatusBadRequest == 400

StatusMethodNotAllowed == 405

StatusInternalServerError == 500

\* No response was written: the handler panicked and net/http closed the
\* connection.
NoResponse == 0

\* r.Context().Value("user_id"): nothing, a string, or a value of another
\* type.
ContextValues ==
    { [kind |-> "nil", str |-> ""],
      [kind |-> "string", str |-> "adm"],
      [kind |-> "string", str |-> "usr"],
      [kind |-> "other", str |-> ""] }

\* The answer to the is_admin query on profiles.
ProfileAnswers == [err : BOOLEAN, IsAdmin : BOOLEAN]

\* json.NewDecoder(r.Body).Decode(&req): an error, or req.UserID.  "ADM" is
\* another spelling of "adm".
Bodies ==
    {[err |-> TRUE, UserID |-> ""]}
    \cup [err : {FALSE}, UserID : {"", "adm", "usr", "ADM"}]

AdminRequests ==
    [method : {"DELETE", "POST", "GET"}, ctx : ContextValues,
     clientErr : BOOLEAN, profile : ProfileAnswers, body : Bodies,
     deleteErr : BOOLEAN]

NoRequest ==
    [method |-> "", ctx |-> [kind |-> "nil", str |-> ""], clientErr |-> FALSE,
     profile |-> [err |-> FALSE, IsAdmin |-> FALSE],
     body |-> [err |-> TRUE, UserID |-> ""], deleteErr |-> FALSE]

\* Faulty variant of IsSelf: the test is left out.
IsSelfNever(target, userID) == FALSE

\* if req.UserID == userID.(string)
IsSelf(target, userID) == target = userID

Answer(status, deleted) == [status |-> status, deleted |-> deleted]

\* DeleteUserAccount from its first line to its return: the status written
\* and the arguments of the client.Auth.Admin.DeleteUser calls made.
DeleteUserAccountAnswer(r) ==
    IF r.method \notin {"DELETE", "POST"}
    THEN Answer(StatusMethodNotAllowed, <<>>)
    ELSE IF r.ctx.kind = "nil" THEN Answer(StatusUnauthorized, <<>>)
    ELSE IF r.clientErr THEN Answer(StatusInternalServerError, <<>>)
    ELSE IF r.ctx.kind # "string" THEN Answer(NoResponse, <<>>)
    ELSE IF r.profile.err \/ ~r.profile.IsAdmin
    THEN Answer(StatusForbidden, <<>>)
    ELSE IF r.body.err THEN Answer(StatusBadRequest, <<>>)
    ELSE IF r.body.UserID = "" THEN Answer(StatusBadRequest, <<>>)
    ELSE IF IsSelf(r.body.UserID, r.ctx.str)
    THEN Answer(StatusBadRequest, <<>>)
    ELSE IF r.deleteErr
    THEN Answer(StatusInternalServerError, <<r.body.UserID>>)
    ELSE Answer(StatusOK, <<r.body.UserID>>)

InitAdmin ==
    /\ areq = NoRequest
    /\ astatus = NoResponse
    /\ adeleted = <<>>

DeleteUserAccount(r) ==
    /\ areq' = r
    /\ astatus' = DeleteUserAccountAnswer(r).status
    /\ adeleted' = DeleteUserAccountAnswer(r).deleted
    /\ UNCHANGED lookupVars
    /\ UNCHANGED <<hubVars, pushVars, listenVars, keyVars>>

NextAdmin == \E r \in AdminRequests : DeleteUserAccount(r)

(***************************************************************************)
(* Specifications.                                                         *)
(***************************************************************************)
\* No HTTP request has been made.
HTTPIdle == InitLookup /\ InitAdmin

\* The Hub's initial state, with the dispatcher and the listener at rest.
InitHubOnly == InitHub /\ PushIdle /\ InitListen /\ KeysIdle /\ HTTPIdle

Init == InitHub /\ InitPush /\ InitListen /\ KeysIdle /\ HTTPIdle

\* Before the first process: the file is whatever was left there.
InitKeyManager ==
    InitHub /\ PushIdle /\ InitListen /\ InitKeys /\ HTTPIdle

SpecHub == InitHubOnly /\ [][NextHub]_vars

SpecHubLogged == InitHubOnly /\ [][NextHubLogged]_vars

SpecPush == Init /\ [][NextPush]_vars

SpecPushSerial == Init /\ [][NextPushSerial]_vars

SpecPushBesideHub == Init /\ [][NextPushBesideHub]_vars

SpecListen == Init /\ [][NextListen]_vars

\* The listener of src/push.go.
SpecListenNoJoin == Init /\ [][NextListenNoJoin]_vars

SpecKeys == InitKeyManager /\ [][NextKeys]_vars

SpecLookup == InitHubOnly /\ [][NextLookup]_vars

SpecAdmin == InitHubOnly /\ [][NextAdmin]_vars

\* The Hub goroutine runs: a case of its select that stays ready is taken.
SpecHubFair ==
    /\ SpecHub
    /\ \A c \in Clients : WF_vars(HubRegister(c))
    /\ \A c \in Clients : WF_vars(HubUnregister(c))
    /\ WF_vars(HubBroadcast)

\* The writers run too: WriteMessage returns, and the range loop ends once
\* the channel is closed and drained.
SpecPumpsFair ==
    /\ SpecHubFair
    /\ \A c \in Clients : WF_vars(WriterWrite(c) \/ WriterWriteError(c))
    /\ \A c \in Clients : WF_vars(WriterExit(c))

\* Time passes and time.Sleep returns.
SpecListenFair == SpecListen /\ WF_vars(Tick) /\ WF_vars(WakeUp)

\* And the ticker of a heartbeat goroutine fires: on a closed connection its
\* write fails.
SpecHeartbeatFair ==
    /\ SpecListenFair
    /\ \A k \in Conns : WF_vars(link[k] = "closed" /\ HeartbeatFails(k))


(***************************************************************************)
(* Properties of the Hub.                                                  *)
(*                                                                         *)
(* Steps are recognised by what they change: the Hub takes register(c)     *)
(* when c goes from "registering" to "open", unregister(c) when c goes     *)
(* from "unregistering" to "closed", and a targeted frame when hub.broadcast *)
(* shrinks; a reader forwards a frame when hub.broadcast grows.            *)
(***************************************************************************)
Last(q) == q[Len(q)]

RegisterStep(c) == pc[c] = "registering" /\ pc'[c] = "open"

UnregisterStep(c) == pc[c] = "unregistering" /\ pc'[c] = "closed"

SendStep == Len(broadcast') < Len(broadcast)

ForwardStep == Len(broadcast') > Len(broadcast)

\* C1: after every processed register/unregister command, isOnline(id) is
\* true iff the most recently processed registry command for user id was a
\* register.  (lastCmd records, per user, the last register or unregister the
\* Hub processed; a removal by a full-buffer send is recorded as its own
\* kind, "evict", and is no register either.)
C1_OnlineReflectsLastCommand ==
    \A u \in UserIDs : IsUserOnline(u) <=> lastCmd[u] = "register"

\* C1 witness: a user went offline by an unregister while another connection
\* of that user is still open (the most recent command decides, not the
\* existence of a live connection).
C1_Witness ==
    \E c \in Clients :
        pc[c] = "open" /\ lastCmd[uid[c]] = "unregister"
        /\ ~IsUserOnline(uid[c])

\* C2 (as claimed): unregister(c) removes the entry of c's user only if the
\* entry is c itself; when a newer connection holds the entry, processing
\* unregister(c) leaves that entry in place.
C2_UnregisterLeavesNewerConnection ==
    [][\A c \in Clients :
          (UnregisterStep(c) /\ clients[uid[c]] # c)
              => clients'[uid[c]] = clients[uid[c]]]_vars

\* C3: a typing frame read by connection S naming peer P is put on
\* hub.broadcast for P with user_id = S's identifier (not the client's
\* value); the Hub enqueues it, unchanged, only on the connection registered
\* for P when it handles it; with no such connection it drops the frame and
\* changes neither the registry nor any queue; and no other step enqueues a
\* typing frame.
C3_TypingOnlyToRegisteredPeer ==
    /\ [][\A c \in Clients, f \in InboundFrames :
             (ReadFrame(c, f) /\ IsForwarded(f))
                 => broadcast' = Append(broadcast,
                        [UserID |-> f.recipient_id,
                         Message |-> [type |-> "typing", user_id |-> uid[c],
                                      value |-> f.typing]])]_vars
    /\ [][SendStep =>
             LET p == Head(broadcast)
                 d == clients[p.UserID]
             IN  /\ \A c \in Clients :
                        Send'[c] # Send[c]
                            => c = d /\ Send'[c] = Append(Send[c], p.Message)
                 /\ d = NoClient =>
                        /\ clients' = clients /\ Send' = Send
                        /\ sendClosed' = sendClosed /\ ~panicked']_vars
    /\ [][\A c \in Clients :
             (Len(Send'[c]) > Len(Send[c]) /\ Last(Send'[c]).type = "typing")
                 => SendStep]_vars

\* C3 witness: a typing frame of another user sits in the queue of the
\* connection registered for the peer it names.
C3_Witness ==
    \E c \in Clients :
        /\ pc[c] = "open"
        /\ Send[c] # <<>> /\ Head(Send[c]).type = "typing"
        /\ Head(Send[c]).user_id # uid[c]
        /\ clients[uid[c]] = c

\* C4: the presence frame produced by connection C's register or unregister
\* is never enqueued on C's own outbound queue; more, no queue ever holds a
\* presence frame about its own connection's user.
C4_PresenceNeverToSelf ==
    /\ [][\A c \in Clients :
             (RegisterStep(c) \/ UnregisterStep(c)) => Send'[c] = Send[c]]_vars
    /\ [](\A c \in Clients : \A i \in 1..Len(Send[c]) :
             Send[c][i].type = "online_status" => Send[c][i].user_id # uid[c])

\* C4 witness: C is registered and its online frame sits in a peer's queue,
\* while C's own queue is empty.
C4_Witness ==
    \E c, d \in Clients :
        /\ c # d /\ pc[c] = "open" /\ pc[d] = "open"
        /\ clients[uid[c]] = c /\ Send[c] = <<>>
        /\ Send[d] # <<>> /\ Last(Send[d]) = PresenceFrame(uid[c], TRUE)

\* C5 (as claimed): when register(c) is processed, the online=true frame of
\* c's user is enqueued on every other registered connection.
C5_PresenceToEveryPeer ==
    [][\A c \in Clients :
          RegisterStep(c) =>
              \A d \in Registered(clients') \ {c} :
                  Send'[d] = Append(Send[d], PresenceFrame(uid[c], TRUE))]_vars

\* C5 (amended): when register(c) is processed, the online=true frame of c's
\* user is enqueued on every other registered connection whose outbound
\* buffer has room; a peer whose buffer is full is skipped: its queue is left
\* as it is, open, and it stays registered.
C5_PresenceToEveryPeerWithRoom ==
    [][\A c \in Clients :
          RegisterStep(c) =>
              \A d \in Registered(clients') \ {c} :
                  IF Len(Send[d]) < SendBuf
                  THEN Send'[d] = Append(Send[d], PresenceFrame(uid[c], TRUE))
                  ELSE /\ Send'[d] = Send[d]
                       /\ clients'[uid[d]] = d
                       /\ sendClosed'[d] = sendClosed[d]]_vars

\* C5 witness: c has just been registered and its online frame is the newest
\* frame of a registered peer of another user.
C5_Witness ==
    \E c, d \in Clients :
        /\ pc[c] = "open" /\ pc[d] = "open"
        /\ clients[uid[c]] = c
        /\ clients[uid[d]] = d /\ uid[d] # uid[c]
        /\ Len(Send[d]) = SendBuf
        /\ Last(Send[d]) = PresenceFrame(uid[c], TRUE)

\* C6: the registry holds at most one connection per user, filed under that
\* connection's own identifier; a registration replaces the entry of its
\* user by the new connection; and a connection that is not the entry of its
\* user (a superseded one) never has a frame enqueued.
C6_NewestConnectionReplaces ==
    /\ [](\A u \in UserIDs : clients[u] # NoClient => uid[clients[u]] = u)
    /\ [][\A c \in Clients : RegisterStep(c) => clients'[uid[c]] = c]_vars
    /\ [][\A c \in Clients :
             (pc[c] # "new" /\ pc[c] # "registering" /\ clients[uid[c]] # c)
                 => Len(Send'[c]) <= Len(Send[c])]_vars

\* C6 witness: both connections of one user are open, the registry holds the
\* second, and a frame sent to the user sits in the second's queue only.
C6_Witness ==
    \E c, d \in Clients :
        /\ c # d /\ uid[c] = uid[d]
        /\ pc[c] = "open" /\ pc[d] = "open"
        /\ clients[uid[c]] = d
        /\ Send[d] # <<>> /\ Head(Send[d]).type = "typing"
        /\ Send[c] = <<>>

\* C7: the Hub handling a targeted frame for a registered connection: with a
\* full buffer it closes that connection's queue, removes the entry (the
\* user is offline), discards the frame and goes on; with room it enqueues
\* the frame and leaves the registry as it is.  The Hub can always take the
\* next targeted frame, whatever the state of the consumer.
C7_SendEvictsOnFullBuffer ==
    /\ [][SendStep =>
             LET p == Head(broadcast)
                 d == clients[p.UserID]
             IN  d # NoClient =>
                   IF Len(Send[d]) = SendBuf
                   THEN /\ sendClosed'[d] /\ ~sendClosed[d]
                        /\ clients' = [clients EXCEPT ![p.UserID] = NoClient]
                        /\ Send' = Send
                        /\ ~panicked'
                   ELSE /\ Send' = [Send EXCEPT ![d] = Append(@, p.Message)]
                        /\ clients' = clients
                        /\ sendClosed' = sendClosed
                        /\ ~panicked']_vars
    /\ []((broadcast # <<>> /\ ~panicked) => ENABLED HubBroadcast)

\* C7 witness: a connection was evicted for a full buffer: its queue is
\* closed, still full, and its user is offline.
C7_Witness ==
    \E c \in Clients :
        /\ sendClosed[c] /\ Len(Send[c]) = SendBuf
        /\ lastCmd[uid[c]] = "evict" /\ ~IsUserOnline(uid[c])

(***************************************************************************)
(* Properties of the push dispatcher.                                      *)
(***************************************************************************)
Range(q) == {q[i] : i \in 1..Len(q)}

\* The delivery to ep for request e is over and was answered with status.
Answered(e, ep, status) ==
    /\ tpc[e][ep] = "done"
    /\ ~resp[e][ep].err
    /\ resp[e][ep].StatusCode = status

\* A started delivery goroutine waits for nothing but its own network call.
CanSend(e, ep) ==
    ENABLED (\E outcome \in Outcomes, deleted \in BOOLEAN :
                 SendPushNamespace(e, ep, outcome, deleted))

\* C8: for an INSERT record whose recipient's subscriptions the store
\* returned, exactly one delivery attempt is made per returned subscription:
\* a goroutine is started for each returned subscription and for no other,
\* each makes one SendNotification call when it runs, none makes two, and
\* nothing is attempted for a request that did not get that far.
C8_OneAttemptPerSubscription ==
    \A e \in Events, ep \in Endpoints :
        /\ attempts[e][ep] <= 1
        /\ (tpc[e][ep] = "done" <=> attempts[e][ep] = 1)
        /\ (epc[e] = "spawned" => (tpc[e][ep] # "none" <=> ep \in returned[e]))
        /\ (epc[e] # "spawned" => tpc[e][ep] = "none")
        /\ (tpc[e][ep] = "ready" => CanSend(e, ep))

\* C8 witness: the store returned two subscriptions and both deliveries have
\* been attempted, once each.
C8_Witness ==
    \E e \in Events :
        /\ epc[e] = "spawned" /\ returned[e] = Endpoints
        /\ \A ep \in Endpoints : tpc[e][ep] = "done" /\ attempts[e][ep] = 1

\* The other subscriptions of ep's batch are not affected by ep's delivery.
OthersUnaffected(e, ep) ==
    \A other \in returned[e] \ {ep} :
        /\ tpc[e][other] # "none"
        /\ attempts[e][other] <= 1
        /\ (tpc[e][other] = "done" <=> attempts[e][other] = 1)
        /\ (tpc[e][other] = "ready" => CanSend(e, other))
        /\ other \notin Range(delReq[e][ep])

\* C9 (as claimed): a delivery answered "endpoint gone" (410) causes exactly
\* one deletion call to the store, for that subscription's endpoint, and the
\* other deliveries of the batch are still made once each.
C9_GoneDeletesOnce ==
    \A e \in Events, ep \in Endpoints :
        Answered(e, ep, StatusGone)
            => delReq[e][ep] = <<ep>> /\ OthersUnaffected(e, ep)

\* C9 (amended): with the service role key configured, a delivery answered
\* "endpoint gone" causes exactly one deletion call to the store, for that
\* subscription's endpoint; without the key it causes none.  Either way the
\* other deliveries of the batch are still made once each.
C9_GoneDeletesOnceWithKey ==
    \A e \in Events, ep \in Endpoints :
        Answered(e, ep, StatusGone)
            => /\ delReq[e][ep] = IF serviceKey = "" THEN <<>> ELSE <<ep>>
               /\ OthersUnaffected(e, ep)

\* C9 witness: with the key configured, one subscription of a batch of two
\* was answered 410 and deleted once, the other was delivered once.
C9_Witness ==
    \E e \in Events, ep, other \in Endpoints :
        /\ serviceKey # "" /\ ep # other
        /\ Answered(e, ep, StatusGone)
        /\ delReq[e][ep] = <<ep>>
        /\ Answered(e, other, 201)
        /\ attempts[e][other] = 1 /\ delReq[e][other] = <<>>

C11_BodyTruncatedAtFiftyCharacters ==
    \A e \in Events, ep \in Endpoints :
        tpc[e][ep] = "done" =>
            LET text == JSONText(content[e]) IN
            JSONText(body[e][ep]) =
                IF msgType[e] = "image" THEN JSONText(ImagePlaceholder)
                ELSE IF Len(text) <= BodyLimit THEN text
                ELSE SubSeq(text, 1, BodyLimit) \o JSONText(Ellipsis)

(***************************************************************************)
(* Properties of the change-feed listener.                                 *)
(***************************************************************************)
\* A dispatch is in progress for request e: its subscriptions are being
\* looked up, or a delivery of it has not been made yet.
InProgress(e) ==
    \/ epc[e] = "lookup"
    \/ epc[e] = "spawned" /\ \E ep \in Endpoints : tpc[e][ep] = "ready"

\* C12: after a dial error, a join write error or a read error the listener
\* closes what it had and sleeps; it leaves the sleep only for a new
\* connection attempt and only when the fixed reconnect delay has passed, and
\* it always does; this holds for every failure, without bound: once started,
\* the supervising loop is never left.
C12_ReconnectsForever ==
    /\ [][(DialFails \/ JoinFails \/ ReadFails)
             => lpc' = "sleep" /\ timer' = 0 /\ cur' = NoConn
                /\ (cur # NoConn => link'[cur] # "open")]_vars
    /\ [][(lpc = "sleep" /\ lpc' # "sleep")
             => lpc' = "dial" /\ timer = ReconnectDelay]_vars
    /\ [][(lpc \in LoopStates) => (lpc' \in LoopStates)]_vars
    /\ [](lpc = "sleep" => <>(lpc = "dial"))

\* C12 witness: after a read error (the old connection is closed, its
\* heartbeat goroutine still there) the delay has passed and the listener
\* holds a new connection.
C12_Witness ==
    /\ lpc = "read" /\ timer = ReconnectDelay
    /\ cur # NoConn /\ link[cur] = "open"
    /\ \E k \in Conns : link[k] = "closed"

\* C13: a malformed change-feed frame is skipped: reading it starts no
\* dispatch, changes nothing of the dispatcher, leaves the connection and the
\* read loop as they are; and a well-formed INSERT frame read next on the
\* same connection is dispatched.
C13_MalformedFrameSkipped ==
    /\ [][\A f \in FeedFrames :
             (ReadFeed(f) /\ IsMalformed(f))
                 => /\ lpc' = "read"
                    /\ UNCHANGED pushVars
                    /\ UNCHANGED <<cur, link, hb, lcur>>]_vars
    /\ [][\A f \in FeedFrames :
             (ReadFeed(f) /\ f.kind = "change" /\ f.type = "INSERT"
                  /\ f.table = "messages")
                 => epc'[NextEvent] \in {"lookup", "dropped"}]_vars
    /\ []((lpc = "read" /\ feedLog # <<>>
              /\ feedLog[Len(feedLog)] = "malformed"
              /\ \E e \in Events : epc[e] = "idle")
             => \A f \in FeedFrames :
                    (f.kind = "change" /\ f.type = "INSERT"
                         /\ f.table = "messages")
                        => ENABLED ReadFeed(f))

\* C13 witness: on one connection a malformed frame was read and then an
\* INSERT frame, whose record is being dispatched.
C13_Witness ==
    /\ feedLog = <<"malformed", "messages">>
    /\ cur # NoConn
    /\ \E e \in Events : epc[e] = "lookup" /\ lcur = e

\* C14 (as claimed): while the dispatch of an earlier record (subscription
\* lookup or deliveries) is in progress, the listener, its connection still
\* open, can consume the next frame.
C14_ListenerReadsDuringDispatch ==
    \A e \in Events :
        (InProgress(e) /\ lpc \in {"read", "handle"})
            => ENABLED (\E f \in FeedFrames : ReadFeed(f))

\* C15 (as claimed): a heartbeat write failure on the open change-feed link
\* leads to the listener being disconnected (and, by C12, to a reconnect
\* attempt after the delay).
C15_HeartbeatFailureDisconnects ==
    (\E k \in Conns : hb[k] = "failed") ~> (lpc = "sleep")

\* C16 (as claimed, change-feed path): a frame read from the change feed
\* that is not an INSERT on the table messages is discarded: it causes no
\* subscription lookup and no delivery, and changes nothing of the
\* dispatcher.
C16_OnlyMessageInsertsDispatched ==
    [][\A f \in FeedFrames :
          (ReadFeed(f) /\ ~(f.type = "INSERT" /\ f.table = "messages"))
              => UNCHANGED pushVars]_vars

\* C16 (webhook path): a request whose payload is not an INSERT on the table
\* messages is answered after decoding and nothing else is done for it.
WebhookOnlyMessageInserts ==
    [][\A e \in Events, payload \in WebhookPayloads :
          (HandleNotify(e, payload)
               /\ ~(payload.type = "INSERT" /\ payload.table = "messages"))
              => /\ epc'[e] = "ignored"
                 /\ UNCHANGED <<store, rcpt, returned, tpc, resp, attempts,
                                delCalls, delReq>>]_vars

(***************************************************************************)
(* Properties of the dispatcher's first steps.                             *)
(***************************************************************************)
\* No recipient identifier can be resolved from the value: it is absent, an
\* empty string, or neither a string nor a number.
Unresolvable(rid) ==
    \/ rid.kind \notin {"string", "number"}
    \/ rid.kind = "string" /\ rid.str = ""

\* Nothing was done for request e beyond its decoding.
Untouched(e) ==
    /\ rcpt[e] = "" /\ returned[e] = {}
    /\ \A ep \in Endpoints :
          /\ tpc[e][ep] = "none" /\ attempts[e][ep] = 0
          /\ delCalls[e][ep] = <<>> /\ delReq[e][ep] = <<>>

\* C17: an INSERT record on messages from which no recipient identifier can
\* be resolved is dropped, and only such a record is; for a dropped event no
\* subscription lookup, no delivery attempt and no deletion is ever made, and
\* the store is left as it is by it.
C17_UnresolvableRecipientDropped ==
    /\ [][\A e \in Events, payload \in WebhookPayloads :
             (HandleNotify(e, payload) /\ IsMessageInsert(payload))
                 => /\ epc'[e] = "dropped" <=> Unresolvable(payload.receiver_id)
                    /\ epc'[e] = "dropped" => store' = store]_vars
    /\ [](\A e \in Events : epc[e] = "dropped" => Untouched(e))
    /\ [](\A e \in Events :
             epc[e] = "dropped"
                 => /\ ~ENABLED LookupFails(e)
                    /\ ~ENABLED LookupReturns(e))

\* C17 witness: an event was dropped.
C17_Witness ==
    \E e \in Events : epc[e] = "dropped" /\ Untouched(e)

(***************************************************************************)
(* Properties of the signing keys.                                         *)
(***************************************************************************)
\* The pair the package variables hold.
CurrentKeys == VapidKeys(vapidPrivateKey, vapidPublicKey)

\* A source gave both keys.
GaveBoth(keys) == keys.PrivateKey # EmptyKey /\ keys.PublicKey # EmptyKey

\* The sources the running InitPush call has asked, in order.
Sources == [i \in 1..Len(consulted) |-> consulted[i].source]

\* C18 (as claimed): once InitPush has returned in a process, the package
\* variables hold that same pair whenever a request can read them, and
\* /api/config hands out one public key, whatever requests are served.
C18_KeysFixedForProcessLifetime ==
    /\ kpc = "ready" => CurrentKeys = resolved
    /\ Cardinality(served) <= 1

\* C19: InitPush asks the environment first, the file only when the
\* environment did not give both keys, and generates only when the file did
\* not give both either; the pair it leaves is the one of the first source
\* that gave both; and a generation is followed by an attempt to save.
C19_KeyResolutionOrder ==
    /\ kpc = "file" => Sources = <<"env">> /\ ~GaveBoth(env)
    /\ kpc = "generate"
          => /\ Sources = <<"env", "file">>
             /\ ~GaveBoth(env) /\ ~GaveBoth(consulted[2].gave)
    /\ kpc = "save"
          => /\ Sources = <<"env", "file", "generate">>
             /\ ~GaveBoth(env) /\ ~GaveBoth(consulted[2].gave)
    /\ kpc = "ready"
          => /\ Len(consulted) >= 1
             /\ consulted[1] = [source |-> "env", gave |-> env]
             /\ IF GaveBoth(env)
                THEN Sources = <<"env">> /\ CurrentKeys = env
                ELSE /\ Len(consulted) >= 2
                     /\ IF GaveBoth(consulted[2].gave)
                        THEN /\ Sources = <<"env", "file">>
                             /\ CurrentKeys = consulted[2].gave
                        ELSE /\ Sources = <<"env", "file", "generate", "save">>
                             /\ CurrentKeys = consulted[3].gave
                             /\ GaveBoth(CurrentKeys)

\* C19 witness: InitPush returned after the environment and the file had
\* both failed to give the keys, with a generated pair and a save attempt.
C19_Witness ==
    /\ kpc = "ready"
    /\ Sources = <<"env", "file", "generate", "save">>
    /\ vapidPrivateKey.origin = "generated"

\* C20: after a run has generated a pair and saved it without error, the
\* file loads as exactly that pair, and a later run without values in the
\* environment leaves InitPush with that pair and without generating.
C20_SavedKeysSurviveRestart ==
    persisted # NotPersisted
        => /\ loadVapidKeysFromFile(keyFile)
                 = [err |-> FALSE, keys |-> persisted.keys]
           /\ (kpc = "ready" /\ run > persisted.run /\ env = NoKeys)
                 => /\ CurrentKeys = persisted.keys
                    /\ \A i \in 1..Len(consulted) :
                          consulted[i].source # "generate"

\* C20 witness: a second run, without values in the environment, is ready
\* with the pair the first run generated and saved.
C20_Witness ==
    /\ kpc = "ready" /\ env = NoKeys
    /\ persisted.run = 1 /\ run = 2
    /\ CurrentKeys = persisted.keys
    /\ vapidPrivateKey = GeneratedKey("private", 1)
    /\ Sources = <<"env", "file">>

\* InitPush has returned from a generation whose save failed.
SaveFailed ==
    /\ Sources = <<"env", "file", "generate", "save">>
    /\ consulted[4].gave = NoKeys

\* C21: when saveVapidKeysToFile fails, InitPush still returns and the
\* process goes on; the package variables hold the generated pair, both keys
\* of it, and a delivery made then is signed with that pair.
C21_SaveFailureNotFatal ==
    /\ [][\A outcome \in SaveOutcomes \ {"ok"} :
             InitPushSave(outcome)
                 => /\ kpc' = "ready"
                    /\ consulted'[4].gave = NoKeys
                    /\ CurrentKeys' = consulted[3].gave]_vars
    /\ []((kpc = "ready" /\ SaveFailed)
             => /\ CurrentKeys = consulted[3].gave
                /\ vapidPrivateKey.origin = "generated"
                /\ vapidPublicKey.origin = "generated"
                /\ vapidPrivateKey.n = vapidPublicKey.n
                /\ ENABLED SignDelivery)
    /\ [][(SignDelivery /\ kpc = "ready" /\ SaveFailed)
             => signed' = signed \cup {consulted[3].gave}]_vars

\* C21 witness: after a failed save a delivery was signed with the generated
\* pair.
C21_Witness ==
    /\ kpc = "ready" /\ SaveFailed
    /\ keyFile.kind # "json"
    /\ CurrentKeys \in signed
    /\ vapidPrivateKey.origin = "generated"

(***************************************************************************)
(* Properties of the order of frames.                                      *)
(***************************************************************************)
Increasing(q) == \A i, j \in 1..Len(q) : i < j => q[i] < q[j]

C24_ReaderErrorUnregistersOnce ==
    /\ [][\A c \in Clients :
             /\ (pc[c] = "open" /\ pc'[c] # "open")
                    => pc'[c] = "unregistering"
             /\ pc[c] = "unregistering"
                    => pc'[c] \in {"unregistering", "closed"}
             /\ pc[c] = "closed" => pc'[c] = "closed"]_vars
    /\ [](\A c \in Clients :
             /\ (pc[c] = "unregistering" /\ ~panicked)
                    => ENABLED HubUnregister(c)
             /\ "reader" \in closedBy[c] => pc[c] = "closed"
             /\ pc[c] = "closed" => c \notin Registered(clients))

\* C24 witness: the reader of a connection has closed the transport after
\* the Hub received its unregister request.
C24_Witness ==
    \E c \in Clients :
        /\ pc[c] = "closed" /\ "reader" \in closedBy[c]
        /\ lastCmd[uid[c]] = "unregister"

(***************************************************************************)
(* Properties of the HTTP handlers.                                        *)
(***************************************************************************)
\* C25 (as claimed): no entry of the connection map is inserted or deleted
\* while a task holds the read lock of hub.mutex, so that no reader runs
\* beside a mutation.
C25_MutationExcludesReaders ==
    [][clients' # clients => ~ReadLocked]_vars

\* The identifiers of the response, as text.
OnlineUsersNamed == { FormatFloat0(honline[i]) : i \in 1..Len(honline) }

\* C26 (as claimed): the response names exactly the requested identifiers
\* that were registered when the request reached them.
C26_OnlineUsersExact ==
    hpc = "done" => OnlineUsersNamed = hwas

\* The request is from an authenticated caller the store calls an admin.
ByAdmin(r) ==
    r.ctx.kind = "string" /\ ~r.profile.err /\ r.profile.IsAdmin

\* C27: a request that names the caller's own identifier as target is
\* answered with an error status and no DeleteUser call; a request without a
\* caller identifier, or from a caller the store does not call an admin,
\* makes no DeleteUser call; and no call is made for another target than the
\* one named.
C27_NoSelfDeletion ==
    /\ (areq.ctx.kind = "string" /\ ~areq.body.err
           /\ areq.body.UserID = areq.ctx.str)
          => adeleted = <<>> /\ astatus >= StatusBadRequest
    /\ ~ByAdmin(areq) => adeleted = <<>>
    /\ adeleted \in {<<>>, <<areq.body.UserID>>}

\* C27 witness: an admin's request to delete the admin's own account was
\* answered 400 without a DeleteUser call.
C27_Witness ==
    /\ ByAdmin(areq) /\ areq.method = "DELETE" /\ ~areq.clientErr
    /\ ~areq.body.err /\ areq.body.UserID = areq.ctx.str
    /\ astatus = StatusBadRequest /\ adeleted = <<>>

\* The positions of the listener by the names of the state machine:
\* DISCONNECTED before the dial and between two attempts, CONNECTING while
\* Dial runs, JOINED once the connection is there and the join frame is due,
\* LISTENING inside the read loop.
ListenerState ==
    CASE lpc \in {"start", "sleep", "disabled"} -> "DISCONNECTED"
      [] lpc = "dial" -> "CONNECTING"
      [] lpc = "join" -> "JOINED"
      [] lpc \in {"read", "handle"} -> "LISTENING"

\* The steps of the state machine, and the return to DISCONNECTED.
ListenerSteps ==
    { <<"DISCONNECTED", "CONNECTING">>, <<"CONNECTING", "JOINED">>,
      <<"JOINED", "LISTENING">>,
      <<"CONNECTING", "DISCONNECTED">>, <<"JOINED", "DISCONNECTED">>,
      <<"LISTENING", "DISCONNECTED">> }

\* C28: the listener goes DISCONNECTED, CONNECTING, JOINED, LISTENING on
\* every connection: it is in its read loop on a connection, and the
\* heartbeat of a connection has been started, only after exactly one join
\* frame was written on that connection; and whenever it is DISCONNECTED or
\* dialling again after an error, no connection is open.
C28_ListenerStateMachine ==
    /\ [](lpc \in {"read", "handle"} => joins[cur] = 1)
    /\ [](\A k \in Conns : hb[k] # "off" => joins[k] = 1)
    /\ [](\A k \in Conns : joins[k] <= 1)
    /\ [](ListenerState \in {"DISCONNECTED", "CONNECTING"}
            => cur = NoConn /\ \A k \in Conns : link[k] # "open")
    /\ [][(ListenerState' # ListenerState)
            => (<<ListenerState, ListenerState'>> \in ListenerSteps)]_vars

\* The decimal numerals of the identifiers the records carry as numbers.
Numerals == { <<"7">>, <<"1", "2">> }

\* chars is the decimal string of n: digits only, no leading zero, and read
\* as a number they give n.
IsDecimalStringOf(chars, n) ==
    /\ chars # <<>>
    /\ \A i \in 1..Len(chars) : IsDigit(chars[i])
    /\ Len(chars) > 1 => chars[1] # "0"
    /\ ScanDigits(chars, 0) = n

\* record["receiver_id"] holding the string str.
StringValue(str) == [kind |-> "string", str |-> str, num |-> 0]

\* C29: a record whose receiver_id is the number n is dispatched to the
\* recipient a record holding the decimal string of n is dispatched to, a
\* record holding a non-empty string to that string, and the subscriptions
\* looked up are those of that recipient.
C29_IdentifiersNormalized ==
    /\ [][\A e \in Events, payload \in WebhookPayloads :
             (HandleNotify(e, payload) /\ IsMessageInsert(payload))
                 => LET rid == payload.receiver_id IN
                    /\ (rid.kind = "number")
                          => \E chars \in Numerals :
                                /\ IsDecimalStringOf(chars, rid.num)
                                /\ epc'[e] = "lookup"
                                /\ rcpt'[e] = Text(chars)
                                /\ rcpt'[e] =
                                      ResolveRecipient(StringValue(Text(chars)))
                    /\ (rid.kind = "string" /\ rid.str # "")
                          => (epc'[e] = "lookup" /\ rcpt'[e] = rid.str)]_vars
    /\ [][\A e \in Events :
             LookupReturns(e)
                 => returned'[e] = IF rcpt[e] \in DOMAIN store
                                    THEN store[rcpt[e]] ELSE {}]_vars

\* C29 witness: the record with the number 12 was dispatched to "12", and
\* the lookup for "12" has returned.
C29_Witness ==
    \E e \in Events : rcpt[e] = "12" /\ epc[e] = "spawned"

\* C30: when the subscription lookup of an event fails, that event gets no
\* delivery attempt and no deletion, the store is left as it is, and the
\* lookup is not made again; and an event that comes after a failed lookup
\* is processed like any other: its lookup returns the subscriptions of its
\* recipient and a delivery is started for each of them.
C30_LookupFailureSkipsEvent ==
    /\ [](\A e \in Events :
             epc[e] = "failed"
                 => /\ returned[e] = {}
                    /\ \A ep \in Endpoints :
                          /\ tpc[e][ep] = "none" /\ attempts[e][ep] = 0
                          /\ delCalls[e][ep] = <<>> /\ delReq[e][ep] = <<>>)
    /\ [][\A e \in Events :
             LookupFails(e)
                 => /\ store' = store
                    /\ epc'[e] # "lookup"
                    /\ \A ep \in Endpoints : tpc'[e][ep] = "none"]_vars
    /\ [](\A e \in Events :
             epc[e] = "failed"
                 => /\ ~ENABLED LookupFails(e)
                    /\ ~ENABLED LookupReturns(e))
    /\ [][\A e \in Events :
             (lookupFailed /\ LookupReturns(e))
                 => /\ returned'[e] = IF rcpt[e] \in DOMAIN store
                                       THEN store[rcpt[e]] ELSE {}
                    /\ \A ep \in Endpoints :
                          tpc'[e][ep] = IF ep \in returned'[e]
                                        THEN "ready" ELSE "none"]_vars
    /\ [](\A e \in Events, payload \in WebhookPayloads :
             (lookupFailed /\ epc[e] = "idle")
                 => ENABLED HandleNotify(e, payload))

\* C30 witness: after a lookup has failed, a later event was delivered.
C30_Witness ==
    /\ lookupFailed
    /\ \E e \in Events, ep \in Endpoints :
          /\ epc[e] = "spawned" /\ tpc[e][ep] = "done"
          /\ attempts[e][ep] = 1 /\ ~resp[e][ep].err
          /\ resp[e][ep].StatusCode = 201

\* C31: reading a frame that does not decode, has another type than typing,
\* or is a typing frame without a string recipient_id changes nothing: the
\* registry, every outbound queue and the queue of targeted frames stay as
\* they are, nothing is closed, and the reader is where it was, registered
\* as before and able to read the next frame.
C31_IgnoredFrameChangesNothing ==
    /\ [][\A c \in Clients, f \in InboundFrames :
             (ReadFrameLogged(c, f) /\ IsIgnorable(f))
                 => /\ clients' = clients
                    /\ Send' = Send
                    /\ broadcast' = broadcast
                    /\ sendClosed' = sendClosed
                    /\ panicked' = panicked
                    /\ pc'[c] = "open" /\ closedBy'[c] = {}]_vars
    /\ [][\A c \in Clients :
             (c \in ignored' \ ignored)
                 => (\A f \in InboundFrames :
                        IsIgnorable(f) => ENABLED ReadFrameLogged(c, f))']_vars

\* C31 witness: a reader that has passed over a frame is registered and
\* reading, a typing frame of its own is on the way to the recipient, and
\* no outbound queue holds a frame.
C31_Witness ==
    \E c \in ignored :
        /\ pc[c] = "open" /\ clients[uid[c]] = c
        /\ broadcast # <<>> /\ broadcast[1].Message.user_id = uid[c]
        /\ \A d \in Clients : Send[d] = <<>>

\* What handleNewMessage leaves of an INSERT record on messages: dropped
\* without a recipient, else waiting for the lookup for that recipient.
Accepted(payload) ==
    IF Unresolvable(payload.receiver_id) THEN "dropped" ELSE "lookup"

\* C32: what the dispatcher does with a record is a function of the record,
\* the store and the answers of the push endpoints, whatever the registry
\* of the Hub holds: the recipient looked up is the one the record names,
\* the deliveries started are those of the subscriptions the store returned,
\* a deletion is asked for exactly on a permanently invalid answer; and no
\* step of the dispatcher changes the registry or an outbound queue.
C32_DispatchIndependentOfHub ==
    /\ [][(pushVars' # pushVars) => (hubVars' = hubVars)]_vars
    /\ [][(hubVars' # hubVars) => (pushVars' = pushVars)]_vars
    /\ [][\A e \in Events, payload \in WebhookPayloads :
             (HandleNotify(e, payload) /\ IsMessageInsert(payload))
                 => epc'[e] = Accepted(payload)]_vars
    /\ [][\A e \in Events :
             (epc[e] = "lookup" /\ epc'[e] = "spawned")
                 => /\ returned'[e] = IF rcpt[e] \in DOMAIN store
                                       THEN store[rcpt[e]] ELSE {}
                    /\ \A ep \in Endpoints :
                          tpc'[e][ep] = IF ep \in returned'[e]
                                        THEN "ready" ELSE "none"]_vars
    /\ [](\A e \in Events, ep \in Endpoints :
             tpc[e][ep] = "done"
                 => /\ attempts[e][ep] = 1
                    /\ delCalls[e][ep] =
                          IF ~resp[e][ep].err
                              /\ resp[e][ep].StatusCode
                                    \in {StatusGone, StatusUnauthorized,
                                         StatusForbidden}
                          THEN <<ep>> ELSE <<>>)
    /\ [](\A e \in Events, ep \in Endpoints :
             tpc[e][ep] = "ready"
                 => \A outcome \in Outcomes :
                       ENABLED SendPushNamespace(e, ep, outcome, FALSE))

\* C32 witness: the recipient "7" is registered in the Hub, and both
\* subscriptions of "7" have had their delivery.
C32_Witness ==
    /\ clients["7"] # NoClient
    /\ \E e \in Events :
          /\ rcpt[e] = "7" /\ epc[e] = "spawned"
          /\ \A ep \in Endpoints :
                tpc[e][ep] = "done" /\ attempts[e][ep] = 1

\* A request is waiting for the Hub: a client offered on hub.register or on
\* hub.unregister, or a targeted frame in hub.broadcast.
Submitted ==
    \/ \E c \in Clients : pc[c] \in {"registering", "unregistering"}
    \/ broadcast # <<>>

\* The Hub can take a step whenever a request is waiting, whatever the
\* writers do and however full the outbound queues are.
HubNeverBlocks ==
    (~panicked /\ Submitted)
        => \/ \E c \in Clients : ENABLED HubRegister(c)
           \/ \E c \in Clients : ENABLED HubUnregister(c)
           \/ ENABLED HubBroadcast

\* Every request is served unless the Hub goroutine has panicked.
HubServesUnlessPanicked ==
    /\ \A c \in Clients :
          (pc[c] = "registering") ~> (pc[c] = "open" \/ panicked)
    /\ \A c \in Clients :
          (pc[c] = "unregistering") ~> (pc[c] = "closed" \/ panicked)
    /\ (Len(broadcast) = BroadcastBuf)
          ~> (Len(broadcast) < BroadcastBuf \/ panicked)

\* C33 (as claimed): the Hub never blocks while handling a command, and
\* every submitted register, unregister and send request is eventually
\* accepted and processed, in any interleaving.
C33_HubAlwaysServes ==
    /\ []HubNeverBlocks
    /\ \A c \in Clients : (pc[c] = "registering") ~> (pc[c] = "open")
    /\ \A c \in Clients : (pc[c] = "unregistering") ~> (pc[c] = "closed")
    /\ (Len(broadcast) = BroadcastBuf) ~> (Len(broadcast) < BroadcastBuf)

\* C34 (as claimed): close(client.Send) is executed at most once for every
\* connection: neither the unregister case nor the eviction of the send case
\* closes a queue that is closed already.
C34_QueueClosedAtMostOnce ==
    /\ [][\A c \in Clients :
             (HubUnregister(c) /\ HasEntry(clients, c))
                 => ~sendClosed[c]]_vars
    /\ [][(HubBroadcast /\ clients' # clients)
             => ~sendClosed[clients[Head(broadcast).UserID]]]_vars

\* C35: every connection the registry holds has an open outbound queue, and
\* the Hub never enqueues on a closed queue: neither the targeted send nor
\* the presence broadcast of a register or unregister command meets one.
C35_RegisteredQueuesOpen ==
    /\ [](\A u \in UserIDs :
             clients[u] # NoClient => ~sendClosed[clients[u]])
    /\ [][\A c \in Clients :
             (HubRegister(c) \/ HubUnregister(c))
                 => \A d \in Registered(clients') : ~sendClosed'[d]]_vars
    /\ [][\A d \in Clients :
             (Len(Send'[d]) > Len(Send[d])) => ~sendClosed[d]]_vars

\* C35 witness: after an eviction and an unregister two queues are closed,
\* the connections are gone from the registry.
C35_Witness ==
    /\ ~panicked
    /\ \A c \in Clients : sendClosed[c] /\ c \notin Registered(clients)
    /\ \E u \in UserIDs : lastCmd[u] = "evict"

\* C36 (as claimed): once the unregister of a connection has been processed
\* its outbound queue is eventually closed and its writer eventually
\* returns, also for a connection that was superseded or whose entry was
\* removed by the unregister of another connection.  A behaviour in which
\* the Hub panics is not held against the claim here.
C36_WriterTerminates ==
    \A c \in Clients :
        (pc[c] = "closed")
            ~> ((sendClosed[c] /\ wpc[c] = "done") \/ panicked)

\* C37 (as claimed): whenever the Hub is between commands, the last presence
\* frame emitted for a user says online exactly when the registry holds an
\* entry for the user; every removal of an entry comes with an offline frame
\* for its user, and no offline frame is emitted for a user who still has
\* an entry.
C37_PresenceAgreesWithRegistry ==
    /\ [](~panicked
            => \A u \in UserIDs : IsUserOnline(u) <=> presence[u] = "online")
    /\ [][\A u \in UserIDs :
             (clients[u] # NoClient /\ clients'[u] = NoClient /\ ~panicked')
                 => presence'[u] = "offline"]_vars
    /\ [][\A u \in UserIDs :
             (presence'[u] # presence[u] /\ presence'[u] = "offline")
                 => clients'[u] = NoClient]_vars

\* C38: after InitPush has returned both keys are there and both come from
\* one source: both from the environment, both from the file, or the two
\* halves of one generated pair, the private key in the private variable.
C38_KeysFromOneSource ==
    kpc = "ready"
        => /\ vapidPrivateKey # EmptyKey /\ vapidPublicKey # EmptyKey
           /\ vapidPrivateKey.origin = vapidPublicKey.origin
           /\ vapidPrivateKey.n = vapidPublicKey.n
           /\ vapidPrivateKey.half = "private"
           /\ vapidPublicKey.half = "public"

\* C38 witness: the environment gave the private key only and the file held
\* the private key only; InitPush returned with a generated pair.
C38_Witness ==
    /\ kpc = "ready"
    /\ env = VapidKeys(EnvKey("private"), EmptyKey)
    /\ Len(consulted) >= 2
    /\ consulted[2].gave = VapidKeys(FileKey("private"), EmptyKey)
    /\ vapidPrivateKey.origin = "generated"
    /\ vapidPublicKey.origin = "generated"

\* C39: a heartbeat goroutine belongs to one connection: it runs on an open
\* connection only while that is the connection of the running
\* connectAndListen, its write error changes nothing of another connection
\* or of the listener, and after its connection is closed it ends; so the
\* heartbeats alive are the one of the current connection and those of
\* closed connections that have not had their next tick.
C39_HeartbeatEndsWithConnection ==
    /\ [](\A k \in Conns : (hb[k] = "run" /\ link[k] = "open") => k = cur)
    /\ [](\A k \in Conns : hb[k] = "run" => link[k] \in {"open", "closed"})
    /\ [][\A k \in Conns :
             (hb[k] = "run" /\ hb'[k] # "run")
                 => /\ \A j \in Conns \ {k} :
                          link'[j] = link[j] /\ hb'[j] = hb[j]
                    /\ lpc' = lpc /\ cur' = cur /\ feedLog' = feedLog
                    /\ link'[k] \in {link[k], "free"}]_vars
    /\ \A k \in Conns : (link[k] = "closed") ~> (hb[k] # "run")

\* C39 witness: after a reconnect the heartbeat of the closed connection is
\* still alive beside the one of the new connection.
C39_Witness ==
    \E k \in Conns :
        /\ link[k] = "closed" /\ hb[k] = "run"
        /\ cur \in Conns \ {k} /\ hb[cur] = "run" /\ lpc = "read"

====
